---- MODULE Spec2Model ----
(***************************************************************************)
(* Model of the rexglue-sdk cores: the guest thread's APC queue and        *)
(* lifecycle (src/src/kernel/xthread.cpp), the function emitter and branch *)
(* builders (src/src/codegen) and the host fiber                           *)
(* (src/src/core/fiber_posix.cpp).  Each subsystem has its own             *)
(* specification; the variables of the other subsystems stay at rest.      *)
(***************************************************************************)
EXTENDS Integers, Sequences, FiniteSets, TLC

(***************************************************************************)
(* Bounds of the model.                                                    *)
(***************************************************************************)
\* APCs that EnqueueApc may allocate in one behaviour.
MaxApcs == 3
\* Frames the owning thread may nest (a normal routine calling back in).
MaxNest == 2
\* Depth of EnterCriticalRegion nesting.
MaxDisable == 1
\* APCs pending on a thread when it ends.
MaxPending == 2

VARIABLES
    \* ---- guest thread, APC queue (xthread.cpp) ----
    apc_list,           \* apc_list_: pending APC pointers, head first
    apc_mem,            \* guest memory of the XAPC nodes, by pointer
    apc_disable_count,  \* X_KTHREAD::apc_disable_count
    mutex_owner,        \* holder of global_critical_region_.mutex()
    callbacks,          \* user callbacks queued on thread_ (each runs DeliverAPCs)
    scratch,            \* the thread's scratch block at scratch_address_
    stack,              \* call frames of the owning thread, innermost last
    opc,                \* position of every other host thread inside EnqueueApc
    invoked,            \* history: normal_context of every normal routine call
    popped,             \* history: APC pointers in the order DeliverAPCs shifted them
    \* ---- guest thread, end of life (xthread.cpp) ----
    thr,                \* where the guest thread's host thread is
    exit_i,             \* the statement of Exit / Terminate it is at
    rd_pc,              \* position inside RundownAPCs
    exit_arg,           \* the exit_code argument of the call in progress
    killer,             \* another thread inside Terminate(code) on this thread
    signal_state,       \* X_KTHREAD::header.signal_state
    exit_status,        \* X_KTHREAD::exit_status
    running_,           \* XThread::running_
    tls,                \* current_xthread_tls_ of the guest thread's host thread
    self_refs,          \* self-references taken by Create and not yet released
    notified,           \* calls of KernelState::OnThreadExit(this)
    host,               \* the host thread: running, exited or terminated
    exit_trace,         \* history: the effects of the thread's own Exit / Terminate
    rundown_calls,      \* history: APCs whose rundown routine was called
    \* ---- function emitter (recompiler.cpp, builders/control_flow.cpp) ----
    fn,                 \* the FunctionNode being emitted and its jump table
    switchTables,       \* config().switchTables, by bctr address
    labels,             \* labels: addresses that get a loc_X: label
    emittedLabels,      \* emittedLabels: labels already printed
    base,               \* address of the instruction the second pass is at
    out,                \* the statements printed for the function, in order
    allRecompiled,      \* allRecompiled of recompile(const FunctionNode&)
    validationFailed_,  \* Recompiler::validationFailed_
    force,              \* the --force flag handed to recompile(bool)
    swept,              \* bctr addresses where the late sweep called detect_jump_table
    written,            \* FlushPendingWrites has written the output files
    gpc,                \* position inside recompile(bool force)
    \* ---- host fiber (fiber_posix.cpp) ----
    tls_current_,       \* Fiber::tls_current_ of the host thread (0: nullptr)
    fiber,              \* the Fiber objects: entry_, arg_, context_, stack_
    cpu,                \* what the host thread executes: code, position, stack
    thread_stack,       \* the host thread's own stack
    hist,               \* history per fiber: switches in and out, last switch-out
    destroyed,          \* the Fiber objects that Destroy has deleted
    \* ---- guest thread services (xthread.cpp) ----
    suspend_count,      \* X_KTHREAD::suspend_count (below 0: wrapped around)
    host_suspend_count, \* suspend count of the host thread thread_
    tls_total_size_,    \* bytes of the thread's TLS block
    tls_static_address_,  \* start of the TLS block (extended data first)
    tls_dynamic_address_, \* start of the slots, after the extended data
    guest_memory,       \* guest memory, one value per aligned 32-bit word
    svc_call,           \* the last service call on the thread and its outcome
    \* ---- logical and CR-bit builders (logical.cpp, memory.cpp) ----
    mmio_base,          \* registers whose MMIO-base flag is set in ctx.locals
    cr,                 \* condition-register bits the emitted code runs on
    built,              \* the last instruction built and the text emitted for it
    csrState,           \* flush mode the emitter tracks: Unknown, FPU or VMX
    \* ---- code emitted for lwarx / stwcx. (memory.cpp), as it runs ----
    raw_mem,            \* the guest word at the effective address, as stored
    reserved,           \* per guest thread: the `reserved` register
    cas,                \* the last stwcx. executed and what it did
    \* ---- buffered output files (recompiler.cpp) ----
    disk,               \* output directory: file name -> content, or Missing
    pendingWrites,      \* buffered <<filename, content>> pairs
    cppFileIndex,       \* index of the next unnamed output file
    flushed,            \* the last FlushPendingWrites: what it saw and wrote
    \* ---- rotate-and-mask (helpers.h, logical.cpp) ----
    rot,                \* the last mask computed or rlwinm evaluated
    \* ---- kernel timer (xtimer.cpp) ----
    timer               \* the XTimer: armed or not, its period, routine and firings

apcVars == <<apc_list, apc_mem, apc_disable_count, mutex_owner, callbacks,
             scratch, stack, opc, invoked, popped>>

lifeVars == <<thr, exit_i, rd_pc, exit_arg, killer, signal_state, exit_status,
              running_, tls, self_refs, notified, host, exit_trace, rundown_calls>>

genVars == <<fn, switchTables, labels, emittedLabels, base, out, allRecompiled,
             validationFailed_, force, written, gpc, swept>>

fibVars == <<tls_current_, fiber, cpu, thread_stack, hist, destroyed>>

suspVars == <<suspend_count, host_suspend_count>>
tlsVars == <<tls_total_size_, tls_static_address_, tls_dynamic_address_,
             guest_memory>>
svcVars == <<suspVars, tlsVars, svc_call>>

bldVars == <<mmio_base, cr, built, csrState>>

atomVars == <<raw_mem, reserved, cas>>
fileVars == <<disk, pendingWrites, cppFileIndex, flushed>>
auxVars == <<atomVars, fileVars, rot, timer>>

vars == <<apcVars, lifeVars, genVars, fibVars, svcVars, bldVars, auxVars>>

\* What a step of one subsystem leaves alone.
ApcOnly == UNCHANGED <<lifeVars, genVars, fibVars, svcVars, bldVars, auxVars>>
LifeOnly == UNCHANGED <<genVars, fibVars, svcVars, bldVars, auxVars>>
GenOnly == UNCHANGED <<apcVars, lifeVars, fibVars, svcVars, bldVars, auxVars>>
FibOnly == UNCHANGED <<apcVars, lifeVars, genVars, svcVars, bldVars, auxVars>>
SvcOnly == UNCHANGED <<apcVars, lifeVars, genVars, fibVars, bldVars, auxVars>>
BldOnly == UNCHANGED <<apcVars, lifeVars, genVars, fibVars, svcVars, auxVars>>
AuxOnly == UNCHANGED <<apcVars, lifeVars, genVars, fibVars, svcVars, bldVars>>

\* The emitter before recompile(bool) is called.
GenIdle ==
    /\ fn = <<>>
    /\ switchTables = {}
    /\ labels = {}
    /\ emittedLabels = {}
    /\ base = 0
    /\ out = <<>>
    /\ allRecompiled = TRUE
    /\ validationFailed_ = FALSE
    /\ force = FALSE
    /\ written = FALSE
    /\ gpc = "idle"
    /\ swept = {}

\* No emitted atomic code has run.
\* The timer after Initialize: nothing scheduled.
TimerIdle ==
    timer = [armed |-> FALSE, period_ms |-> 0, routine |-> 0, fired_on |-> "none"]

AuxIdle ==
    /\ raw_mem = <<>>
    /\ reserved = <<>>
    /\ cas = <<>>
    /\ disk = <<>>
    /\ pendingWrites = <<>>
    /\ cppFileIndex = 0
    /\ flushed = <<>>
    /\ rot = <<>>
    /\ TimerIdle

\* No instruction handed to the logical or CR-bit builders yet.
BldIdle ==
    /\ mmio_base = {}
    /\ cr = <<>>
    /\ built = <<>>
    /\ csrState = "Unknown"

\* A guest thread created running, none of its services called.
SvcIdle ==
    /\ suspend_count = 0
    /\ host_suspend_count = 0
    /\ tls_total_size_ = 0
    /\ tls_static_address_ = 0
    /\ tls_dynamic_address_ = 0
    /\ guest_memory = <<>>
    /\ svc_call = <<>>

\* A host thread that has no fiber yet.
FibIdle ==
    /\ tls_current_ = 0
    /\ fiber = <<>>
    /\ cpu = <<>>
    /\ thread_stack = <<>>
    /\ hist = <<>>
    /\ destroyed = {}

(***************************************************************************)
(* Guest thread: APC queue                                                 *)
(***************************************************************************)
Owner == "t"
Others == {"o1", "o2"}
NoThread == "none"

\* Guest addresses passed as normal_routine: 0 is "no routine", the addresses in
\* Registered have a host function registered with the processor, the others
\* have none.
Routines == 0..2
Registered == {1}

\* XAPC's sentinels for "no kernel routine" and "no rundown routine": guest
\* addresses that are neither 0 nor the address of any routine.
kDummyKernelRoutine == 100
kDummyRundownRoutine == 101

ApcPtrs == 1..MaxApcs
FreeApc == [kernel_routine |-> 0, rundown_routine |-> 0,
            normal_routine |-> 0, normal_context |-> 0,
            arg1 |-> 0, arg2 |-> 0, enqueued |-> 0]

\* util::NativeList: Insert links a node at the tail, Shift unlinks the head.
HasPending(list) == list # <<>>
Insert(list, ptr) == Append(list, ptr)
ShiftPtr(list) == Head(list)
ShiftRest(list) == Tail(list)

\* Processor::GetFunction: the host function registered for a guest address.
GetFunction(addr) == addr \in Registered

Frame(f, pc, apc, rt) == [fn |-> f, pc |-> pc, apc |-> apc, rt |-> rt]
Top == stack[Len(stack)]
Pop == SubSeq(stack, 1, Len(stack) - 1)
SetTop(f) == [stack EXCEPT ![Len(stack)] = f]

\* The owning thread runs guest code: at top level, or inside a normal routine.
InGuest == IF stack = <<>> THEN TRUE
           ELSE Top.fn = "DeliverAPCs" /\ Top.pc = "normal"
CanCall == InGuest /\ Len(stack) < MaxNest

\* Pointers handed out so far, and calls of EnqueueApc that will still allocate.
Allocated == {p \in ApcPtrs : apc_mem[p] # FreeApc} \cup
             {popped[i] : i \in DOMAIN popped}
EnqueueInFlight ==
    Cardinality({i \in DOMAIN stack : stack[i].fn = "EnqueueApc"}) +
    Cardinality({o \in Others : opc[o].pc # "idle"})
NextApc == Cardinality(Allocated) + 1

ApcInit ==
    /\ apc_list = <<>>
    /\ apc_mem = [p \in ApcPtrs |-> FreeApc]
    /\ apc_disable_count = 0
    /\ mutex_owner = NoThread
    /\ callbacks = 0
    /\ scratch = [normal_routine |-> 0, normal_context |-> 0, arg1 |-> 0, arg2 |-> 0]
    /\ stack = <<>>
    /\ opc = [o \in Others |-> [pc |-> "idle", rt |-> 0]]
    /\ invoked = <<>>
    /\ popped = <<>>

\* XThread::EnterCriticalRegion
EnterCriticalRegion ==
    /\ InGuest
    /\ apc_disable_count > -MaxDisable
    /\ apc_disable_count' = apc_disable_count - 1
    /\ UNCHANGED <<apc_list, apc_mem, mutex_owner, callbacks, scratch, stack,
                   opc, invoked, popped>>
    /\ ApcOnly

\* XThread::LeaveCriticalRegion, with CheckApcs entering DeliverAPCs
LeaveCriticalRegion ==
    /\ CanCall
    /\ apc_disable_count < 0
    /\ apc_disable_count' = apc_disable_count + 1
    /\ stack' = IF apc_disable_count' = 0
                THEN Append(stack, Frame("DeliverAPCs", "lock", 0, 0))
                ELSE stack
    /\ UNCHANGED <<apc_list, apc_mem, mutex_owner, callbacks, scratch, opc,
                   invoked, popped>>
    /\ ApcOnly

\* The host thread runs one queued user callback: [this]() { DeliverAPCs(); }
RunUserCallback ==
    /\ stack = <<>>
    /\ callbacks > 0
    /\ callbacks' = callbacks - 1
    /\ stack' = Append(stack, Frame("DeliverAPCs", "lock", 0, 0))
    /\ UNCHANGED <<apc_list, apc_mem, apc_disable_count, mutex_owner, scratch,
                   opc, invoked, popped>>
    /\ ApcOnly

\* XThread::LockApc: mutex().lock() returns once no thread holds the region.
LockApc == mutex_owner = NoThread

UnlockApcNoCallback(list, queue_delivery) == callbacks
\* XThread::UnlockApc: the callbacks queued once the region is released.
UnlockApc(list, queue_delivery) ==
    IF HasPending(list) /\ queue_delivery THEN callbacks + 1 ELSE callbacks

\* A call of EnqueueApc by the owning thread (from guest code or from a
\* normal routine) or by another host thread.
EnqueueApcCall(th, routine) ==
    /\ NextApc + EnqueueInFlight <= MaxApcs
    /\ IF th = Owner
       THEN /\ CanCall
            /\ stack' = Append(stack, Frame("EnqueueApc", "lock", 0, routine))
            /\ opc' = opc
       ELSE /\ opc[th].pc = "idle"
            /\ opc' = [opc EXCEPT ![th] = [pc |-> "lock", rt |-> routine]]
            /\ stack' = stack
    /\ UNCHANGED <<apc_list, apc_mem, apc_disable_count, mutex_owner, callbacks,
                   scratch, invoked, popped>>
    /\ ApcOnly

\* XThread::LockApc inside EnqueueApc
EnqueueApcLock(th) ==
    /\ LockApc
    /\ IF th = Owner
       THEN /\ stack # <<>>
            /\ Top.fn = "EnqueueApc" /\ Top.pc = "lock"
            /\ stack' = SetTop([Top EXCEPT !.pc = "insert"])
            /\ opc' = opc
       ELSE /\ opc[th].pc = "lock"
            /\ opc' = [opc EXCEPT ![th].pc = "insert"]
            /\ stack' = stack
    /\ mutex_owner' = th
    /\ UNCHANGED <<apc_list, apc_mem, apc_disable_count, callbacks, scratch,
                   invoked, popped>>
    /\ ApcOnly

\* The XAPC node EnqueueApc initialises; normal_context tags the call.
NewApc(routine, context) ==
    [kernel_routine |-> kDummyKernelRoutine,
     rundown_routine |-> kDummyRundownRoutine,
     normal_routine |-> routine, normal_context |-> context,
     arg1 |-> 0, arg2 |-> 0, enqueued |-> 1]

\* EnqueueApc under the lock: allocate, initialise, insert, UnlockApc(true)
EnqueueApcInsert(th) ==
    /\ IF th = Owner
       THEN /\ stack # <<>>
            /\ Top.fn = "EnqueueApc" /\ Top.pc = "insert"
            /\ stack' = Pop
            /\ opc' = opc
       ELSE /\ opc[th].pc = "insert"
            /\ opc' = [opc EXCEPT ![th] = [pc |-> "idle", rt |-> 0]]
            /\ stack' = stack
    /\ LET rt == IF th = Owner THEN Top.rt ELSE opc[th].rt
           ptr == NextApc
       IN /\ apc_mem' = [apc_mem EXCEPT ![ptr] = NewApc(rt, ptr)]
          /\ apc_list' = Insert(apc_list, ptr)
          /\ callbacks' = UnlockApc(apc_list', TRUE)
    /\ mutex_owner' = NoThread
    /\ UNCHANGED <<apc_disable_count, scratch, invoked, popped>>
    /\ ApcOnly

\* DeliverAPCs: the opening LockApc
DeliverLock ==
    /\ stack # <<>>
    /\ Top.fn = "DeliverAPCs" /\ Top.pc = "lock"
    /\ LockApc
    /\ mutex_owner' = Owner
    /\ stack' = SetTop([Top EXCEPT !.pc = "loop"])
    /\ UNCHANGED <<apc_list, apc_mem, apc_disable_count, callbacks, scratch,
                   opc, invoked, popped>>
    /\ ApcOnly

\* The loop condition of DeliverAPCs
DeliverCondNoGate == HasPending(apc_list)
DeliverCond == HasPending(apc_list) /\ apc_disable_count = 0

\* The four fields DeliverAPCs copies into scratch before the kernel routine
ScratchStore(apc) ==
    [normal_routine |-> apc.normal_routine, normal_context |-> apc.normal_context,
     arg1 |-> apc.arg1, arg2 |-> apc.arg2]

\* The holder of the region while the normal routine runs: DeliverAPCs calls
\* UnlockApc(false) before it looks the routine up.
RegionKeptDuringNormal == mutex_owner
RegionDuringNormal == NoThread

\* The list DeliverAPCs leaves behind when it takes the head with Shift
PendingAfterPeek(list) == list
PendingAfterPop(list) == ShiftRest(list)

\* One iteration of the loop up to the call of the normal routine: shift the
\* head, mark it uninserted, copy to scratch, (no kernel routine for the dummy
\* sentinel), reload, and for a non-zero normal routine UnlockApc(false) and
\* the call.  A zero normal routine goes straight to the free.
DeliverPop ==
    /\ stack # <<>>
    /\ Top.fn = "DeliverAPCs" /\ Top.pc = "loop"
    /\ DeliverCond
    /\ LET ptr == ShiftPtr(apc_list)
           apc == apc_mem[ptr]
           needs_freeing == apc.kernel_routine = kDummyKernelRoutine
           sc == ScratchStore(apc)
       IN /\ apc_list' = PendingAfterPop(apc_list)
          /\ popped' = Append(popped, ptr)
          /\ scratch' = sc
          /\ IF sc.normal_routine # 0
             THEN /\ mutex_owner' = RegionDuringNormal
                  /\ callbacks' = UnlockApc(apc_list', FALSE)
                  /\ apc_mem' = [apc_mem EXCEPT ![ptr].enqueued = 0]
                  /\ IF GetFunction(sc.normal_routine)
                     THEN /\ invoked' = Append(invoked, sc.normal_context)
                          /\ stack' = SetTop(Frame("DeliverAPCs", "normal", ptr,
                                                   sc.normal_routine))
                     ELSE /\ invoked' = invoked
                          /\ stack' = SetTop(Frame("DeliverAPCs", "relock", ptr,
                                                   sc.normal_routine))
             ELSE /\ apc_mem' = [apc_mem EXCEPT ![ptr] =
                                    IF needs_freeing THEN FreeApc
                                    ELSE [@ EXCEPT !.enqueued = 0]]
                  /\ UNCHANGED <<mutex_owner, callbacks, invoked, stack>>
    /\ UNCHANGED <<apc_disable_count, opc>>
    /\ ApcOnly

\* The normal routine returns to DeliverAPCs
NormalReturn ==
    /\ stack # <<>>
    /\ Top.fn = "DeliverAPCs" /\ Top.pc = "normal"
    /\ stack' = SetTop([Top EXCEPT !.pc = "relock"])
    /\ UNCHANGED <<apc_list, apc_mem, apc_disable_count, mutex_owner, callbacks,
                   scratch, opc, invoked, popped>>
    /\ ApcOnly

\* LockApc after the normal routine, then the free of a sticky APC
DeliverRelock ==
    /\ stack # <<>>
    /\ Top.fn = "DeliverAPCs" /\ Top.pc = "relock"
    /\ LockApc
    /\ mutex_owner' = Owner
    /\ apc_mem' = [apc_mem EXCEPT ![Top.apc] =
                      IF @.kernel_routine = kDummyKernelRoutine THEN FreeApc ELSE @]
    /\ stack' = SetTop(Frame("DeliverAPCs", "loop", 0, 0))
    /\ UNCHANGED <<apc_list, apc_disable_count, callbacks, scratch, opc,
                   invoked, popped>>
    /\ ApcOnly

\* The loop condition is false: the closing UnlockApc(true)
DeliverUnlock ==
    /\ stack # <<>>
    /\ Top.fn = "DeliverAPCs" /\ Top.pc = "loop"
    /\ ~DeliverCond
    /\ callbacks' = UnlockApc(apc_list, TRUE)
    /\ mutex_owner' = NoThread
    /\ stack' = Pop
    /\ UNCHANGED <<apc_list, apc_mem, apc_disable_count, scratch, opc,
                   invoked, popped>>
    /\ ApcOnly

ApcNext ==
    \/ EnterCriticalRegion
    \/ LeaveCriticalRegion
    \/ RunUserCallback
    \/ \E th \in {Owner} \cup Others, r \in Routines : EnqueueApcCall(th, r)
    \/ \E th \in {Owner} \cup Others : EnqueueApcLock(th)
    \/ \E th \in {Owner} \cup Others : EnqueueApcInsert(th)
    \/ DeliverLock
    \/ DeliverPop
    \/ NormalReturn
    \/ DeliverRelock
    \/ DeliverUnlock

\* The thread runs guest code: Create has retained the handle, the host thread
\* has set current_xthread_tls_ and running_ and Execute has called the entry.
LifeStart ==
    /\ thr = "guest"
    /\ exit_i = 0
    /\ rd_pc = "lock"
    /\ exit_arg = 0
    /\ killer = [pc |-> "idle", code |-> 0]
    /\ signal_state = 0
    /\ exit_status = 0
    /\ running_ = TRUE
    /\ tls = "this"
    /\ self_refs = 1
    /\ notified = 0
    /\ host = "running"
    /\ exit_trace = <<>>
    /\ rundown_calls = <<>>

Init == ApcInit /\ LifeStart /\ GenIdle /\ FibIdle /\ SvcIdle /\ BldIdle /\ AuxIdle
Next == ApcNext
Spec == Init /\ [][Next]_vars

\* The host schedules every thread: a thread that can take its next step
\* inside EnqueueApc or DeliverAPCs takes it, a normal routine returns, and
\* the owning thread reaches alertable points, where a queued user callback
\* runs.  What guest code chooses to call (EnqueueApc, EnterCriticalRegion,
\* LeaveCriticalRegion) is not forced.
ApcFairness ==
    /\ WF_vars(RunUserCallback)
    /\ \A th \in {Owner} \cup Others : WF_vars(EnqueueApcLock(th))
    /\ \A th \in {Owner} \cup Others : WF_vars(EnqueueApcInsert(th))
    /\ WF_vars(DeliverLock)
    /\ WF_vars(DeliverPop)
    /\ WF_vars(NormalReturn)
    /\ WF_vars(DeliverRelock)
    /\ WF_vars(DeliverUnlock)

SpecApcFair == Init /\ [][Next]_vars /\ ApcFairness

(***************************************************************************)
(* Guest thread: Exit and Terminate                                        *)
(***************************************************************************)
ExitCodes == 1..2

\* APCs that can be pending when a thread ends: the sticky ones of EnqueueApc
\* (both sentinels), and caller-owned ones with a kernel routine of their own
\* and a rundown routine that is absent (0), registered or not registered.
PendingKinds ==
    {[kernel_routine |-> kDummyKernelRoutine, rundown_routine |-> kDummyRundownRoutine]}
    \cup {[kernel_routine |-> 1, rundown_routine |-> r] : r \in Routines}
PendingLists == UNION {[1..n -> PendingKinds] : n \in 0..MaxPending}

PendingApc(kind, ptr) ==
    [kernel_routine |-> kind.kernel_routine, rundown_routine |-> kind.rundown_routine,
     normal_routine |-> 1, normal_context |-> ptr,
     arg1 |-> 0, arg2 |-> 0, enqueued |-> 1]

\* The thread inside Create, before it retains itself: no host thread yet.
LifeCreate ==
    /\ thr = "create"
    /\ exit_i = 0
    /\ rd_pc = "lock"
    /\ exit_arg = 0
    /\ killer = [pc |-> "idle", code |-> 0]
    /\ signal_state = 0
    /\ exit_status = 0
    /\ running_ = FALSE
    /\ tls = "null"
    /\ self_refs = 0
    /\ notified = 0
    /\ host = "none"
    /\ exit_trace = <<>>
    /\ rundown_calls = <<>>

LifeInit ==
    /\ \E lst \in PendingLists :
          /\ apc_list = [i \in 1..Len(lst) |-> i]
          /\ apc_mem = [p \in ApcPtrs |->
                           IF p <= Len(lst) THEN PendingApc(lst[p], p) ELSE FreeApc]
    /\ apc_disable_count = 0
    /\ mutex_owner = NoThread
    /\ callbacks = 0
    /\ scratch = [normal_routine |-> 0, normal_context |-> 0, arg1 |-> 0, arg2 |-> 0]
    /\ stack = <<>>
    /\ opc = [o \in Others |-> [pc |-> "idle", rt |-> 0]]
    /\ invoked = <<>>
    /\ popped = <<>>
    /\ (LifeStart \/ (apc_list = <<>> /\ LifeCreate))
    /\ GenIdle
    /\ FibIdle
    /\ SvcIdle
    /\ BldIdle
    /\ AuxIdle

\* The statements of XThread::Exit, in program order.
ExitStepsSignalFirst ==
    <<"signal", "rundown", "notify", "clear_tls", "not_running", "release", "host_exit">>
ExitSteps ==
    <<"rundown", "signal", "notify", "clear_tls", "not_running", "release", "host_exit">>

\* The statements of XThread::Terminate on the thread itself (IsInThread(this)).
TerminateSelfSteps == <<"signal", "not_running", "release", "host_exit">>

\* XThread::IsInThread(this), by the caller's current_xthread_tls_.
IsInThread(caller_tls) == caller_tls = "this"

Steps == IF thr = "exit" THEN ExitSteps ELSE TerminateSelfSteps
AtStep(op, name) ==
    /\ host = "running"
    /\ thr = op
    /\ exit_i \in DOMAIN Steps
    /\ Steps[exit_i] = name
Advance ==
    /\ exit_i' = exit_i + 1
    /\ thr' = thr
Log(name) == exit_trace' = Append(exit_trace, name)

\* Guest code (or Execute, after the entry returned) calls Exit(exit_code).
ExitCall(code) ==
    /\ host = "running"
    /\ thr = "guest"
    /\ thr' = "exit"
    /\ exit_i' = 1
    /\ exit_arg' = code
    /\ UNCHANGED <<apcVars, rd_pc, killer, signal_state, exit_status, running_,
                   tls, self_refs, notified, host, exit_trace, rundown_calls>>
    /\ LifeOnly

\* RundownAPCs: LockApc
RundownLock ==
    /\ AtStep("exit", "rundown")
    /\ rd_pc = "lock"
    /\ LockApc
    /\ mutex_owner' = Owner
    /\ rd_pc' = "loop"
    /\ UNCHANGED <<apc_list, apc_mem, apc_disable_count, callbacks, scratch,
                   stack, opc, invoked, popped>>
    /\ UNCHANGED <<thr, exit_i, exit_arg, killer, signal_state, exit_status,
                   running_, tls, self_refs, notified, host, exit_trace,
                   rundown_calls>>
    /\ LifeOnly

\* RundownAPCs: one iteration (shift, mark uninserted, rundown routine, free)
RundownPop ==
    /\ AtStep("exit", "rundown")
    /\ rd_pc = "loop"
    /\ HasPending(apc_list)
    /\ LET ptr == ShiftPtr(apc_list)
           apc == apc_mem[ptr]
           needs_freeing == apc.kernel_routine = kDummyKernelRoutine
           called == /\ apc.rundown_routine # kDummyRundownRoutine
                     /\ apc.rundown_routine # 0
                     /\ GetFunction(apc.rundown_routine)
       IN /\ apc_list' = ShiftRest(apc_list)
          /\ rundown_calls' = IF called THEN Append(rundown_calls, ptr)
                              ELSE rundown_calls
          /\ apc_mem' = [apc_mem EXCEPT ![ptr] =
                            IF needs_freeing THEN FreeApc
                            ELSE [@ EXCEPT !.enqueued = 0]]
    /\ UNCHANGED <<apc_disable_count, mutex_owner, callbacks, scratch, stack,
                   opc, invoked, popped>>
    /\ UNCHANGED <<thr, exit_i, rd_pc, exit_arg, killer, signal_state,
                   exit_status, running_, tls, self_refs, notified, host,
                   exit_trace>>
    /\ LifeOnly

\* RundownAPCs: the list is empty, UnlockApc(true); Exit goes on
RundownUnlock ==
    /\ AtStep("exit", "rundown")
    /\ rd_pc = "loop"
    /\ ~HasPending(apc_list)
    /\ callbacks' = UnlockApc(apc_list, TRUE)
    /\ mutex_owner' = NoThread
    /\ rd_pc' = "lock"
    /\ Log("rundown")
    /\ Advance
    /\ UNCHANGED <<apc_list, apc_mem, apc_disable_count, scratch, stack, opc,
                   invoked, popped>>
    /\ UNCHANGED <<exit_arg, killer, signal_state, exit_status, running_, tls,
                   self_refs, notified, host, rundown_calls>>
    /\ LifeOnly

\* Exit: thread->header.signal_state = 1; thread->exit_status = exit_code
ExitSetStatus ==
    /\ AtStep("exit", "signal")
    /\ signal_state' = 1
    /\ exit_status' = exit_arg
    /\ Log("signal")
    /\ Advance
    /\ UNCHANGED <<apcVars, rd_pc, exit_arg, killer, running_, tls, self_refs,
                   notified, host, rundown_calls>>
    /\ LifeOnly

\* Exit: kernel_state()->OnThreadExit(this)
ExitNotify ==
    /\ AtStep("exit", "notify")
    /\ notified' = notified + 1
    /\ Log("notify")
    /\ Advance
    /\ UNCHANGED <<apcVars, rd_pc, exit_arg, killer, signal_state, exit_status,
                   running_, tls, self_refs, host, rundown_calls>>
    /\ LifeOnly

\* Exit: current_xthread_tls_ = nullptr
ExitClearTls ==
    /\ AtStep("exit", "clear_tls")
    /\ tls' = "null"
    /\ Log("clear_tls")
    /\ Advance
    /\ UNCHANGED <<apcVars, rd_pc, exit_arg, killer, signal_state, exit_status,
                   running_, self_refs, notified, host, rundown_calls>>
    /\ LifeOnly

\* Exit: running_ = false
ExitNotRunning ==
    /\ AtStep("exit", "not_running")
    /\ running_' = FALSE
    /\ Log("not_running")
    /\ Advance
    /\ UNCHANGED <<apcVars, rd_pc, exit_arg, killer, signal_state, exit_status,
                   tls, self_refs, notified, host, rundown_calls>>
    /\ LifeOnly

\* Exit: ReleaseHandle()
ExitRelease ==
    /\ AtStep("exit", "release")
    /\ self_refs' = self_refs - 1
    /\ Log("release")
    /\ Advance
    /\ UNCHANGED <<apcVars, rd_pc, exit_arg, killer, signal_state, exit_status,
                   running_, tls, notified, host, rundown_calls>>
    /\ LifeOnly

\* Exit: rex::thread::Thread::Exit(exit_code), which does not return
ExitHostExit ==
    /\ AtStep("exit", "host_exit")
    /\ host' = "exited"
    /\ thr' = "ended_exit"
    /\ exit_i' = 0
    /\ Log("host_exit")
    /\ UNCHANGED <<apcVars, rd_pc, exit_arg, killer, signal_state, exit_status,
                   running_, tls, self_refs, notified, rundown_calls>>
    /\ LifeOnly

\* Guest code calls Terminate(exit_code) on its own thread.
TerminateSelfCall(code) ==
    /\ host = "running"
    /\ thr = "guest"
    /\ thr' = "terminate"
    /\ exit_i' = 1
    /\ exit_arg' = code
    /\ UNCHANGED <<apcVars, rd_pc, killer, signal_state, exit_status, running_,
                   tls, self_refs, notified, host, exit_trace, rundown_calls>>
    /\ LifeOnly

\* Terminate on the thread itself: signal state and exit status
TerminateSelfSetStatus ==
    /\ AtStep("terminate", "signal")
    /\ signal_state' = 1
    /\ exit_status' = exit_arg
    /\ Log("signal")
    /\ Advance
    /\ UNCHANGED <<apcVars, rd_pc, exit_arg, killer, running_, tls, self_refs,
                   notified, host, rundown_calls>>
    /\ LifeOnly

\* Terminate on the thread itself: running_ = false
TerminateSelfNotRunning ==
    /\ AtStep("terminate", "not_running")
    /\ running_' = FALSE
    /\ Log("not_running")
    /\ Advance
    /\ UNCHANGED <<apcVars, rd_pc, exit_arg, killer, signal_state, exit_status,
                   tls, self_refs, notified, host, rundown_calls>>
    /\ LifeOnly

\* Terminate on the thread itself: IsInThread(this) holds, ReleaseHandle()
TerminateSelfRelease ==
    /\ AtStep("terminate", "release")
    /\ IsInThread(tls)
    /\ self_refs' = self_refs - 1
    /\ Log("release")
    /\ Advance
    /\ UNCHANGED <<apcVars, rd_pc, exit_arg, killer, signal_state, exit_status,
                   running_, tls, notified, host, rundown_calls>>
    /\ LifeOnly

\* Terminate on the thread itself: rex::thread::Thread::Exit(exit_code)
TerminateSelfHostExit ==
    /\ AtStep("terminate", "host_exit")
    /\ host' = "exited"
    /\ thr' = "ended_terminate"
    /\ exit_i' = 0
    /\ Log("host_exit")
    /\ UNCHANGED <<apcVars, rd_pc, exit_arg, killer, signal_state, exit_status,
                   running_, tls, self_refs, notified, rundown_calls>>
    /\ LifeOnly

\* Another thread calls Terminate(exit_code) on this thread.
TerminateOtherCall(code) ==
    /\ killer.pc = "idle"
    /\ host # "none"
    /\ killer' = [pc |-> "signal", code |-> code]
    /\ UNCHANGED <<apcVars, thr, exit_i, rd_pc, exit_arg, signal_state,
                   exit_status, running_, tls, self_refs, notified, host,
                   exit_trace, rundown_calls>>
    /\ LifeOnly

\* Terminate by another thread: signal state and exit status
TerminateOtherSetStatus ==
    /\ killer.pc = "signal"
    /\ signal_state' = 1
    /\ exit_status' = killer.code
    /\ killer' = [killer EXCEPT !.pc = "not_running"]
    /\ UNCHANGED <<apcVars, thr, exit_i, rd_pc, exit_arg, running_, tls,
                   self_refs, notified, host, exit_trace, rundown_calls>>
    /\ LifeOnly

\* Terminate by another thread: running_ = false
TerminateOtherNotRunning ==
    /\ killer.pc = "not_running"
    /\ running_' = FALSE
    /\ killer' = [killer EXCEPT !.pc = "kill"]
    /\ UNCHANGED <<apcVars, thr, exit_i, rd_pc, exit_arg, signal_state,
                   exit_status, tls, self_refs, notified, host, exit_trace,
                   rundown_calls>>
    /\ LifeOnly

\* Terminate by another thread: IsInThread(this) fails, thread_->Terminate(code)
\* ends the host thread wherever it is.
TerminateOtherKill ==
    /\ killer.pc = "kill"
    /\ ~IsInThread("other")
    /\ host' = IF host = "running" THEN "terminated" ELSE host
    /\ killer' = [killer EXCEPT !.pc = "release"]
    /\ UNCHANGED <<apcVars, thr, exit_i, rd_pc, exit_arg, signal_state,
                   exit_status, running_, tls, self_refs, notified, exit_trace,
                   rundown_calls>>
    /\ LifeOnly

\* Terminate by another thread: ReleaseHandle()
TerminateOtherRelease ==
    /\ killer.pc = "release"
    /\ self_refs' = self_refs - 1
    /\ killer' = [killer EXCEPT !.pc = "done"]
    /\ UNCHANGED <<apcVars, thr, exit_i, rd_pc, exit_arg, signal_state,
                   exit_status, running_, tls, notified, host, exit_trace,
                   rundown_calls>>
    /\ LifeOnly

\* Create: RetainHandle(), then Thread::Create of the host thread, which
\* either succeeds (created) or returns null and Create returns NO_MEMORY.
CreateThread(created) ==
    /\ thr = "create"
    /\ self_refs' = self_refs + 1
    /\ thr' = IF created THEN "started" ELSE "create_failed"
    /\ host' = IF created THEN "running" ELSE host
    /\ UNCHANGED <<apcVars, exit_i, rd_pc, exit_arg, killer, signal_state,
                   exit_status, running_, tls, notified, exit_trace,
                   rundown_calls>>
    /\ LifeOnly

\* The host thread's body: it sets current_xthread_tls_ and running_ and
\* calls Execute, which calls the function registered for the entry address
\* (guest code runs) or, with none registered, returns; the body then clears
\* running_ and current_xthread_tls_, releases the handle and ends.
ThreadBody(address) ==
    /\ thr = "started"
    /\ host = "running"
    /\ IF GetFunction(address)
       THEN /\ thr' = "guest"
            /\ running_' = TRUE
            /\ tls' = "this"
            /\ UNCHANGED <<self_refs, host>>
       ELSE /\ thr' = "ended_return"
            /\ running_' = FALSE
            /\ tls' = "null"
            /\ self_refs' = self_refs - 1
            /\ host' = "exited"
    /\ UNCHANGED <<apcVars, exit_i, rd_pc, exit_arg, killer, signal_state,
                   exit_status, notified, exit_trace, rundown_calls>>
    /\ LifeOnly

\* XTimer::SetTimer called by the thread from guest code: resume is refused;
\* otherwise callback_thread_ is the calling thread, the routine is stashed
\* and the host timer is set once (period 0) or repeating.
SetTimer(period_ms, routine, resume) ==
    /\ host = "running"
    /\ thr = "guest"
    /\ timer' = IF resume THEN timer
                ELSE [armed |-> TRUE, period_ms |-> period_ms,
                      routine |-> routine, fired_on |-> timer.fired_on]
    /\ UNCHANGED <<apcVars, lifeVars, atomVars, fileVars, rot>>
    /\ UNCHANGED <<genVars, fibVars, svcVars, bldVars>>

\* The host timer fires on the timer thread: a one-shot timer is spent, and
\* the callback, if a routine was given, calls callback_thread_->EnqueueApc.
\* With no reference left (self_refs = 0) the XThread may have been deleted
\* and the call through the stale pointer may fault instead of enqueuing.
TimerFire(faults) ==
    /\ timer.armed
    /\ LET calls == timer.routine # 0
           ended == host \in {"exited", "terminated"}
           enqueues == calls /\ ~(faults /\ self_refs = 0)
           free == {p \in ApcPtrs : apc_mem[p] = FreeApc}
           ptr == CHOOSE p \in free : \A q \in free : p <= q
       IN  /\ enqueues => (LockApc /\ free # {})
           /\ IF enqueues
              THEN /\ apc_mem' = [apc_mem EXCEPT ![ptr] = NewApc(timer.routine, ptr)]
                   /\ apc_list' = Insert(apc_list, ptr)
                   /\ callbacks' = UnlockApc(apc_list', TRUE)
              ELSE UNCHANGED <<apc_list, apc_mem, callbacks>>
           /\ timer' = [timer EXCEPT
                          !.armed = timer.period_ms # 0,
                          !.fired_on = IF ~enqueues THEN @
                                       ELSE IF ended THEN "ended" ELSE "running"]
    /\ UNCHANGED <<apc_disable_count, mutex_owner, scratch, stack, opc, invoked,
                   popped>>
    /\ UNCHANGED <<lifeVars, atomVars, fileVars, rot>>
    /\ UNCHANGED <<genVars, fibVars, svcVars, bldVars>>

LifeNext ==
    \/ \E created \in BOOLEAN : CreateThread(created)
    \/ \E address \in Routines : ThreadBody(address)
    \/ \E code \in ExitCodes : ExitCall(code)
    \/ RundownLock
    \/ RundownPop
    \/ RundownUnlock
    \/ ExitSetStatus
    \/ ExitNotify
    \/ ExitClearTls
    \/ ExitNotRunning
    \/ ExitRelease
    \/ ExitHostExit
    \/ \E code \in ExitCodes : TerminateSelfCall(code)
    \/ TerminateSelfSetStatus
    \/ TerminateSelfNotRunning
    \/ TerminateSelfRelease
    \/ TerminateSelfHostExit
    \/ \E code \in ExitCodes : TerminateOtherCall(code)
    \/ TerminateOtherSetStatus
    \/ TerminateOtherNotRunning
    \/ TerminateOtherKill
    \/ TerminateOtherRelease

SpecLife == LifeInit /\ [][LifeNext]_vars

\* The life of a thread that uses a timer.
TimerNext ==
    \/ LifeNext
    \/ \E period_ms \in {0, 10}, routine \in 0..1, resume \in BOOLEAN :
          SetTimer(period_ms, routine, resume)
    \/ \E faults \in BOOLEAN : TimerFire(faults)

SpecTimer == LifeInit /\ [][TimerNext]_vars

(***************************************************************************)
(* Function emitter: label collection, body emission, branch builders      *)
(***************************************************************************)
\* Instructions in the function being emitted (addresses count instructions).
FnLen == 2
\* Entries of a jump table.
MaxTargets == 2

FnBase == 1
FnEnd == FnBase + FnLen
FnAddrs == FnBase..(FnEnd - 1)
InFn(target) == target >= FnBase /\ target < FnEnd

\* Branch displacements lead below the function (to nothing the graph knows),
\* into it, or to the entry of the next function.
BranchTargets == {FnBase - 1, FnBase + 1, FnEnd}
TableTargets == {FnBase, FnEnd}

\* FunctionGraph: the functions it knows, and its classification of a target.
GraphFunctions == {FnBase, FnEnd}
classifyTarget(target, is_call) ==
    IF target = FnBase THEN (IF is_call THEN "Function" ELSE "InternalLabel")
    ELSE IF target \in GraphFunctions THEN "Function"
    ELSE IF InFn(target) THEN "InternalLabel"
    ELSE "Unknown"

\* "hooked" is a nop with a mid-asm hook (jumpAddress = target) configured at
\* its address; "fails" is an instruction whose builder returns false.
Instrs ==
    {[op |-> o, target |-> 0] : o \in {"nop", "mtctr", "bctr", "fails"}}
    \cup {[op |-> o, target |-> t] : o \in {"b", "bc", "bl", "bdnz"}, t \in BranchTargets}
    \cup {[op |-> "hooked", target |-> FnBase + 1]}

\* The jump table of the function: configured (config().switchTables),
\* auto-detected by analysis (fn.jumpTables()), or found late by
\* FunctionScanner::detect_jump_table during emission.
NoTable == [src |-> "none", at |-> 0, targets |-> <<>>]
TableSeqs == UNION {[1..n -> TableTargets] : n \in 0..MaxTargets}
TablesFor(insns) ==
    {NoTable} \cup
    {[src |-> s, at |-> a, targets |-> t] :
        s \in {"config", "auto", "late"},
        a \in {x \in FnAddrs : insns[x].op = "bctr"},
        t \in TableSeqs}

Range(seq) == {seq[i] : i \in DOMAIN seq}
Stmt(k, t) == [at |-> 0, k |-> k, t |-> t, body |-> <<>>]
Block(k, t, body) == [at |-> 0, k |-> k, t |-> t, body |-> body]

printFunctionCall(address) ==
    IF address \in GraphFunctions
    THEN <<Stmt("call", address)>>
    ELSE <<Stmt("unresolved", address)>>

build_b(target) ==
    LET kind == classifyTarget(target, FALSE)
    IN  IF kind = "InternalLabel" THEN <<Stmt("goto", target)>>
        ELSE IF kind \in {"Function", "Import"}
             THEN printFunctionCall(target) \o <<Stmt("return", 0)>>
        ELSE IF target >= FnBase /\ target < FnEnd THEN <<Stmt("goto", target)>>
        ELSE printFunctionCall(target) \o <<Stmt("return", 0)>>

build_bl(a, target) ==
    LET kind == classifyTarget(target, TRUE)
    IN  <<Stmt("set_lr", a + 1)>> \o
        (IF kind = "InternalLabel" THEN <<Stmt("goto", target)>>
         ELSE IF kind \in {"Function", "Import"} THEN printFunctionCall(target)
         ELSE <<Stmt("unresolved", target), Stmt("fatal", target)>>)

printConditionalBranch(target) ==
    IF target < FnBase \/ target >= FnEnd
    THEN <<Block("if", target, printFunctionCall(target) \o <<Stmt("return", 0)>>)>>
    ELSE <<Block("if", target, <<Stmt("goto", target)>>)>>

emitBranchUnchecked(target) ==
    <<Block("if", target, <<Stmt("goto", target)>>)>>
emitBranchWithBoundsCheck(target) ==
    IF target < FnBase \/ target >= FnEnd
    THEN <<Block("if", target, <<Stmt("return", 0)>>)>>
    ELSE <<Block("if", target, <<Stmt("goto", target)>>)>>

build_bdnz(target) == <<Stmt("dec_ctr", 0)>> \o emitBranchWithBoundsCheck(target)

\* The table build_bctr binds to the bctr at a: the configured one first, then
\* the auto-detected one of the function.
BoundTable(a, tables) ==
    IF \E c \in tables : c.at = a
    THEN (CHOOSE c \in tables : c.at = a).targets
    ELSE fn.jt.targets
HasTable(a, tables) ==
    \/ \E c \in tables : c.at = a
    \/ fn.jt.src = "auto" /\ fn.jt.at = a

build_bctr(a, tables) ==
    IF HasTable(a, tables)
    THEN LET targets == BoundTable(a, tables)
             case(i) == IF targets[i] < FnBase \/ targets[i] >= FnEnd
                        THEN Stmt("return", 0)
                        ELSE Stmt("goto", targets[i])
         IN  <<Block("switch", Len(targets),
                     [i \in 1..Len(targets) |-> case(i)] \o <<Stmt("trap", 0)>>)>>
    ELSE <<Stmt("indirect_call", 0), Stmt("return", 0)>>

printMidAsmHook(insn) ==
    IF insn.op = "hooked"
    THEN <<Stmt("hook", 0), Stmt("goto", insn.target)>>
    ELSE <<>>

DispatchInstruction(insn, a, tables) ==
    IF insn.op = "fails" THEN [ok |-> FALSE, code |-> <<>>]
    ELSE [ok |-> TRUE,
          code |-> CASE insn.op = "b" -> build_b(insn.target)
                     [] insn.op = "bl" -> build_bl(a, insn.target)
                     [] insn.op = "bc" -> printConditionalBranch(insn.target)
                     [] insn.op = "bdnz" -> build_bdnz(insn.target)
                     [] insn.op = "bctr" -> build_bctr(a, tables)
                     [] OTHER -> <<Stmt("op", 0)>>]

\* The word i instructions before a: what lies before the function is not code
\* of the function.
Word(a) ==
    IF a \in FnAddrs
    THEN (IF fn.insns[a].op = "hooked" THEN "nop" ELSE fn.insns[a].op)
    ELSE "data"
is_switch_pattern(a) ==
    \E i \in 1..3 : /\ Word(a - i) = "mtctr"
                    /\ \A j \in 1..(i - 1) : Word(a - j) = "nop"

\* A run of recompile(bool force) over one function: any function over the
\* instruction kinds, with or without a jump table, after a validation phase
\* that did or did not fail.
GenInit ==
    /\ ApcInit
    /\ LifeStart
    /\ FibIdle
    /\ SvcIdle
    /\ BldIdle
    /\ AuxIdle
    /\ \E insns \in [FnAddrs -> Instrs] :
          \E jt \in TablesFor(insns) :
             /\ fn = [insns |-> insns, jt |-> jt]
             /\ switchTables = IF jt.src = "config"
                               THEN {[at |-> jt.at, targets |-> jt.targets]}
                               ELSE {}
    /\ labels = {}
    /\ emittedLabels = {}
    /\ base = FnBase
    /\ out = <<>>
    /\ allRecompiled = TRUE
    /\ validationFailed_ \in BOOLEAN
    /\ force \in BOOLEAN
    /\ written = FALSE
    /\ gpc = "start"
    /\ swept = {}

\* recompile(bool force): the validation gate at its start
StartRun ==
    /\ gpc = "start"
    /\ gpc' = IF validationFailed_ /\ ~force THEN "blocked" ELSE "collect"
    /\ UNCHANGED <<fn, switchTables, labels, emittedLabels, base, out,
                   allRecompiled, validationFailed_, force, written, swept>>
    /\ GenOnly

\* recompile(fn): first pass, the label set
CollectLabels ==
    /\ gpc = "collect"
    /\ labels' =
          {fn.insns[a].target :
              a \in {x \in FnAddrs : fn.insns[x].op \in {"b", "bc", "bdnz"}}}
          \cup UNION {Range(c.targets) : c \in {x \in switchTables : x.at \in FnAddrs}}
          \cup {fn.insns[a].target : a \in {x \in FnAddrs : fn.insns[x].op = "hooked"}}
          \cup (IF fn.jt.src = "auto" THEN Range(fn.jt.targets) ELSE {})
    /\ gpc' = "emit"
    /\ UNCHANGED <<fn, switchTables, emittedLabels, base, out, allRecompiled,
                   validationFailed_, force, written, swept>>
    /\ GenOnly

\* recompile(fn): second pass, one instruction: its label, late jump-table
\* detection, the mid-asm hook and the builder.  The sweep is guarded by the
\* configured tables alone; when its pattern scan matches it calls
\* FunctionScanner::detect_jump_table, which finds the table analysis missed
\* and may find again the one analysis detected (rediscovered).
EmitInstruction ==
    /\ gpc = "emit"
    /\ base < FnEnd
    /\ \E rediscovered \in BOOLEAN :
        LET insn == fn.insns[base]
            newLabel == base \in labels /\ base \notin emittedLabels
            sweep == /\ insn.op = "bctr"
                     /\ ~\E c \in switchTables : c.at = base
                     /\ is_switch_pattern(base)
            late == /\ sweep
                    /\ fn.jt.at = base
                    /\ \/ fn.jt.src = "late"
                       \/ fn.jt.src = "auto" /\ rediscovered
            tables == IF late
                      THEN switchTables \cup {[at |-> base, targets |-> fn.jt.targets]}
                      ELSE switchTables
            res == DispatchInstruction(insn, base, tables)
            code == (IF newLabel THEN <<Stmt("label", base)>> ELSE <<>>)
                    \o printMidAsmHook(insn) \o res.code
        IN  /\ emittedLabels' = IF newLabel THEN emittedLabels \cup {base}
                                ELSE emittedLabels
            /\ swept' = IF sweep THEN swept \cup {base} ELSE swept
            /\ switchTables' = tables
            /\ labels' = IF late THEN labels \cup Range(fn.jt.targets) ELSE labels
            /\ out' = out \o [i \in 1..Len(code) |-> [code[i] EXCEPT !.at = base]]
            /\ allRecompiled' = (allRecompiled /\ res.ok)
    /\ base' = base + 1
    /\ UNCHANGED <<fn, validationFailed_, force, written, gpc>>
    /\ GenOnly

\* recompile(bool force): the function's result is dropped, the buffered files
\* are saved and FlushPendingWrites writes them.
Flush ==
    /\ gpc = "emit"
    /\ base = FnEnd
    /\ written' = TRUE
    /\ gpc' = "done"
    /\ UNCHANGED <<fn, switchTables, labels, emittedLabels, base, out,
                   allRecompiled, validationFailed_, force, swept>>
    /\ GenOnly

GenNext ==
    \/ StartRun
    \/ CollectLabels
    \/ EmitInstruction
    \/ Flush

SpecGen == GenInit /\ [][GenNext]_vars

(***************************************************************************)
(* Host fiber (POSIX backend: getcontext / makecontext / swapcontext)      *)
(***************************************************************************)
\* Fiber objects on the host thread, the thread's own included.
MaxFibers == 2
\* Statements (stack writes and SwitchTo calls) one piece of code executes.
MaxSteps == 2

FiberEntries == {"e1", "e2"}
FiberArgs == {1}

\* The registers a ucontext_t holds: the code and the position in it, the
\* stack the stack pointer is in (0: the thread's own, f: fiber f's stack_)
\* and its depth.
Context(code, arg, at, stk, sp) ==
    [code |-> code, arg |-> arg, at |-> at, stk |-> stk, sp |-> sp]

StackMem(stk) == IF stk = 0 THEN thread_stack ELSE fiber[stk].stack_

\* The fiber whose stack the host thread is executing on (0: none yet).
RunningFiber ==
    IF cpu.stk # 0 THEN cpu.stk
    ELSE IF \E f \in DOMAIN fiber : fiber[f].is_thread_fiber_
         THEN CHOOSE f \in DOMAIN fiber : fiber[f].is_thread_fiber_
         ELSE 0

InCode == cpu.code \notin {"trampoline", "abort"}
NoHist == [ins |-> 0, outs |-> 0, at |-> 0, stack |-> <<>>]

FibInit ==
    /\ ApcInit
    /\ LifeStart
    /\ GenIdle
    /\ SvcIdle
    /\ BldIdle
    /\ AuxIdle
    /\ tls_current_ = 0
    /\ fiber = <<>>
    /\ cpu = Context("main", 0, 0, 0, 0)
    /\ thread_stack = <<>>
    /\ hist = <<>>
    /\ destroyed = {}

\* Fiber::ConvertCurrentThread, once per thread
ConvertCurrentThread ==
    /\ InCode
    /\ tls_current_ = 0
    /\ Len(fiber) < MaxFibers
    /\ fiber' = Append(fiber, [entry_ |-> "none", arg_ |-> 0, context_ |-> cpu,
                               stack_ |-> <<>>, is_thread_fiber_ |-> TRUE])
    /\ tls_current_' = Len(fiber) + 1
    /\ hist' = Append(hist, NoHist)
    /\ UNCHANGED <<cpu, thread_stack, destroyed>>
    /\ FibOnly

\* Fiber::Create(stack_size, entry, arg)
Create(entry, arg) ==
    /\ InCode
    /\ Len(fiber) < MaxFibers
    /\ fiber' = Append(fiber,
                       [entry_ |-> entry, arg_ |-> arg,
                        context_ |-> Context("trampoline", 0, 0, Len(fiber) + 1, 0),
                        stack_ |-> <<>>, is_thread_fiber_ |-> FALSE])
    /\ hist' = Append(hist, NoHist)
    /\ UNCHANGED <<tls_current_, cpu, thread_stack, destroyed>>
    /\ FibOnly

\* The running code executes a statement that writes a local on its stack.
Work ==
    /\ InCode
    /\ cpu.at < MaxSteps
    /\ LET mem == Append(SubSeq(StackMem(cpu.stk), 1, cpu.sp), cpu.at)
       IN  IF cpu.stk = 0
           THEN thread_stack' = mem /\ fiber' = fiber
           ELSE fiber' = [fiber EXCEPT ![cpu.stk].stack_ = mem]
                /\ thread_stack' = thread_stack
    /\ cpu' = [cpu EXCEPT !.at = @ + 1, !.sp = @ + 1]
    /\ UNCHANGED <<tls_current_, hist, destroyed>>
    /\ FibOnly

\* SwitchTo: the value tls_current_ gets.
StaleCurrent(from, target) == from
SwitchedCurrent(from, target) == target

\* Fiber::SwitchTo(target), called by the running code of the current fiber
SwitchTo(target) ==
    /\ InCode
    /\ cpu.at < MaxSteps
    /\ tls_current_ # 0
    /\ target \in DOMAIN fiber
    /\ tls_current_ \notin destroyed
    /\ target \notin destroyed
    /\ LET from == tls_current_
           saved == [cpu EXCEPT !.at = @ + 1]
           swapped == [fiber EXCEPT ![from].context_ = saved]
           me == RunningFiber
           leaving == [hist EXCEPT ![me] =
                          [@ EXCEPT !.outs = @ + 1, !.at = saved.at,
                                    !.stack = SubSeq(StackMem(cpu.stk), 1, cpu.sp)]]
       IN  /\ tls_current_' = SwitchedCurrent(from, target)
           /\ fiber' = swapped
           /\ cpu' = swapped[target].context_
           /\ hist' = [leaving EXCEPT ![target].ins = @ + 1]
    /\ UNCHANGED <<thread_stack, destroyed>>
    /\ FibOnly

\* Fiber::Trampoline, where a created fiber's context starts
Trampoline ==
    /\ cpu.code = "trampoline"
    /\ tls_current_ # 0
    /\ LET f == tls_current_
       IN  cpu' = [cpu EXCEPT !.code = fiber[f].entry_, !.arg = fiber[f].arg_]
    /\ UNCHANGED <<tls_current_, fiber, thread_stack, hist, destroyed>>
    /\ FibOnly

\* Fiber::Destroy on fiber f, called by the running code.  On the current
\* fiber the assert stops a build that keeps asserts (asserts = TRUE); a build
\* that compiles them out deletes the object all the same.
Destroy(f, asserts) ==
    /\ InCode
    /\ f \in DOMAIN fiber
    /\ f \notin destroyed
    /\ IF f = tls_current_ /\ asserts
       THEN /\ cpu' = [cpu EXCEPT !.code = "abort"]
            /\ destroyed' = destroyed
       ELSE /\ cpu' = cpu
            /\ destroyed' = destroyed \cup {f}
    /\ UNCHANGED <<tls_current_, fiber, thread_stack, hist>>
    /\ FibOnly

FibNext ==
    \/ \E f \in 1..MaxFibers : \E asserts \in BOOLEAN : Destroy(f, asserts)
    \/ ConvertCurrentThread
    \/ \E entry \in FiberEntries : \E arg \in FiberArgs : Create(entry, arg)
    \/ Work
    \/ \E target \in 1..MaxFibers : SwitchTo(target)
    \/ Trampoline

SpecFiber == FibInit /\ [][FibNext]_vars

(***************************************************************************)
(* Guest thread services: Suspend / Resume, TLS slots, Delay, Save/Restore *)
(***************************************************************************)
\* Suspend calls outstanding on one thread.
MaxSuspend == 2

\* TLS slots and words of extended TLS data the executable's header asks for.
MaxTlsSlots == 2
MaxTlsExtended == 1

\* Aligned word addresses of the guest heap the TLS block is allocated in;
\* address 0 is the failed allocation.
HeapWords == { 4 * w : w \in 1..(3 * (MaxTlsSlots + MaxTlsExtended) + 2) }

\* XThread::Create, TLS part: the block holds the extended data followed by
\* the slots, and is zeroed.
AllocateTls(tls_slots, tls_extended_size, block) ==
    /\ tls_total_size_ = tls_slots * 4 + tls_extended_size
    /\ tls_static_address_ = block
    /\ tls_dynamic_address_ = block + tls_extended_size
    /\ guest_memory = [a \in HeapWords |-> 0]

\* InitializeGuestObject sets suspend_count from X_CREATE_SUSPENDED, and Create
\* leaves the host thread suspended exactly when that flag is set.
SvcInit ==
    /\ ApcInit
    /\ LifeStart
    /\ GenIdle
    /\ FibIdle
    /\ BldIdle
    /\ AuxIdle
    /\ \E create_suspended \in BOOLEAN :
          /\ suspend_count = IF create_suspended THEN 1 ELSE 0
          /\ host_suspend_count = IF create_suspended THEN 1 ELSE 0
    /\ \E tls_slots \in 1..MaxTlsSlots, ext \in 0..MaxTlsExtended :
          AllocateTls(tls_slots, 4 * ext, 4)
    /\ svc_call = [op |-> "none"]

\* Thread::Resume of the host: a thread that is not suspended stays as it is
\* and the call reports failure.
HostResume(count) == IF count > 0 THEN count - 1 ELSE count
\* Thread::Suspend of the host, which succeeds (ok) or fails.
HostSuspend(count, ok) == IF ok THEN count + 1 ELSE count

\* XThread::Resume: the guest count is decremented whatever its value, then
\* the host thread is resumed.
Resume ==
    /\ suspend_count > -MaxSuspend
    /\ suspend_count' = suspend_count - 1
    /\ host_suspend_count' = HostResume(host_suspend_count)
    /\ svc_call' = [op |-> "resume"]
    /\ UNCHANGED tlsVars
    /\ SvcOnly

\* XThread::Suspend: under the global critical region the guest count is
\* incremented, then the host thread is suspended.
Suspend(ok) ==
    /\ LockApc
    /\ suspend_count < MaxSuspend
    /\ suspend_count' = suspend_count + 1
    /\ host_suspend_count' = HostSuspend(host_suspend_count, ok)
    /\ svc_call' = [op |-> "suspend"]
    /\ UNCHANGED tlsVars
    /\ SvcOnly

\* The slots each accessor lets through its range check.
GetTLSAccepts(slot) == ~(slot * 4 > tls_total_size_)
SetTLSAccepts(slot) == ~(slot * 4 >= tls_total_size_)

\* XThread::GetTLSValue: loads the word at tls_dynamic_address_ + slot * 4.
GetTLSValue(slot) ==
    /\ svc_call' = IF GetTLSAccepts(slot)
                   THEN [op |-> "get", slot |-> slot, ok |-> TRUE,
                         touched |-> {tls_dynamic_address_ + slot * 4}]
                   ELSE [op |-> "get", slot |-> slot, ok |-> FALSE, touched |-> {}]
    /\ UNCHANGED tlsVars
    /\ UNCHANGED suspVars
    /\ SvcOnly

\* XThread::SetTLSValue: stores the word at tls_dynamic_address_ + slot * 4.
SetTLSValue(slot, value) ==
    /\ IF SetTLSAccepts(slot)
       THEN /\ guest_memory' =
                  [guest_memory EXCEPT ![tls_dynamic_address_ + slot * 4] = value]
            /\ svc_call' = [op |-> "set", slot |-> slot, ok |-> TRUE,
                            touched |-> {tls_dynamic_address_ + slot * 4}]
       ELSE /\ guest_memory' = guest_memory
            /\ svc_call' = [op |-> "set", slot |-> slot, ok |-> FALSE,
                            touched |-> {}]
    /\ UNCHANGED <<tls_total_size_, tls_static_address_, tls_dynamic_address_>>
    /\ UNCHANGED suspVars
    /\ SvcOnly

\* Guest clock scalars, and guest times in 100-ns ticks at which Delay is called.
GuestTimeScalars == {1, 2}
GuestNows == {10000}
\* Intervals the guest passes: relative (negative), absolute (positive), zero.
Intervals == {-20000, -5000, 0, 20000}

\* chrono::Clock::ScaleGuestDurationMillis.
ScaleGuestDurationMillis(guest_ms, scalar) == guest_ms * scalar

\* Milliseconds XThread::Delay computes from the interval before scaling.
DelayTimeoutMs(interval) ==
    IF interval > 0 THEN 0
    ELSE IF interval < 0 THEN (-interval) \div 10000
    ELSE 0

\* XThread::Delay: sleeps the scaled timeout; an alertable sleep that an APC
\* interrupts (alerted) reports X_STATUS_USER_APC.
Delay(alertable, interval, scalar, alerted, now) ==
    /\ alerted => alertable
    /\ svc_call' = [op |-> "delay", interval |-> interval, scalar |-> scalar,
                    now |-> now,
                    slept_ms |-> ScaleGuestDurationMillis(DelayTimeoutMs(interval),
                                                          scalar),
                    status |-> IF alertable /\ alerted
                               THEN "X_STATUS_USER_APC" ELSE "X_STATUS_SUCCESS"]
    /\ UNCHANGED tlsVars
    /\ UNCHANGED suspVars
    /\ SvcOnly

\* The parts of the register file held in ThreadSavedState::context.
Registers == {"lr", "ctr", "r", "f", "v", "cr", "fpscr", "xer_ca", "xer_ov",
              "xer_so", "vscr_sat", "pc"}
\* Register files: every register holds the same value, 0 or 1.
Contexts == { [reg \in Registers |-> val] : val \in 0..1 }

\* SaveContext: copies every register of ctx but the PC into the state, which
\* keeps what it held there.
SaveContext(ctx, state) ==
    [reg \in Registers |-> IF reg = "pc" THEN state[reg] ELSE ctx[reg]]

\* XThread::Save of a thread with the given guest_thread_ and running_ fields
\* and live register file ctx.  `state` is a local that is not initialised:
\* uninit is what its context happens to hold.
Save(guest_thread, running, save_object, ctx, uninit) ==
    /\ svc_call' =
          IF ~guest_thread \/ running \/ ~save_object
          THEN [op |-> "save", ok |-> FALSE, running |-> running, live |-> ctx]
          ELSE [op |-> "save", ok |-> TRUE, running |-> running, live |-> ctx,
                is_running |-> running,
                context |-> IF running
                            THEN [SaveContext(ctx, uninit) EXCEPT !["pc"] = 0]
                            ELSE uninit]
    /\ UNCHANGED tlsVars
    /\ UNCHANGED suspVars
    /\ SvcOnly

\* XThread::Restore from a stream: restore_object and signature are the
\* outcomes of RestoreObject and of the signature comparison, is_running the
\* flag of the stored state, created whether Thread::Create gives a thread.
Restore(restore_object, signature, is_running, created) ==
    /\ svc_call' =
          IF ~restore_object \/ ~signature
          THEN [op |-> "restore", is_running |-> is_running,
                returned |-> FALSE, host_thread |-> FALSE, retained |-> 0]
          ELSE IF is_running
          THEN [op |-> "restore", is_running |-> is_running,
                returned |-> TRUE, host_thread |-> created, retained |-> 1]
          ELSE [op |-> "restore", is_running |-> is_running,
                returned |-> TRUE, host_thread |-> FALSE, retained |-> 0]
    /\ UNCHANGED tlsVars
    /\ UNCHANGED suspVars
    /\ SvcOnly

\* Slot numbers the guest passes: every slot of the block and two past it.
SlotArgs == 0..(MaxTlsSlots + MaxTlsExtended + 1)

SvcNext ==
    \/ Resume
    \/ \E ok \in BOOLEAN : Suspend(ok)
    \/ \E slot \in SlotArgs : GetTLSValue(slot)
    \/ \E slot \in SlotArgs : SetTLSValue(slot, 1)
    \/ \E alertable \in BOOLEAN, interval \in Intervals,
          scalar \in GuestTimeScalars, alerted \in BOOLEAN, now \in GuestNows :
          Delay(alertable, interval, scalar, alerted, now)
    \/ \E guest_thread \in BOOLEAN, running \in BOOLEAN, save_object \in BOOLEAN,
          ctx \in Contexts, uninit \in Contexts :
          Save(guest_thread, running, save_object, ctx, uninit)
    \/ \E restore_object \in BOOLEAN, signature \in BOOLEAN,
          is_running \in BOOLEAN, created \in BOOLEAN :
          Restore(restore_object, signature, is_running, created)

SpecSvc == SvcInit /\ [][SvcNext]_vars

(***************************************************************************)
(* Logical builders and the MMIO-base flag                                 *)
(***************************************************************************)
\* Registers the instructions name.
Regs == {3, 4}
\* 16-bit immediates: 0x7FC8 is the upper half of an MMIO base, 1 is not.
Imms == {1, 32712}

\* An instruction as the disassembler hands it over: the builder it is
\* dispatched to, whether its name ends in '.', its operands.
Insn(op, dot, operands) == [op |-> op, dot |-> dot, operands |-> operands]

RegRegOps == {"and", "andc", "nand", "nor", "or", "orc", "xor", "eqv"}
RegImmOps == {"ori", "oris", "xori", "xoris"}
LogicalInsns ==
    { Insn(op, dot, <<d, a, b>>) :
        op \in RegRegOps, dot \in BOOLEAN, d \in Regs, a \in Regs, b \in Regs }
    \cup { Insn("not", dot, <<d, a>>) : dot \in BOOLEAN, d \in Regs, a \in Regs }
    \cup { Insn(op, TRUE, <<d, a, imm>>) :
             op \in {"andi", "andis"}, d \in Regs, a \in Regs, imm \in Imms }
    \cup { Insn(op, FALSE, <<d, a, imm>>) :
             op \in RegImmOps, d \in Regs, a \in Regs, imm \in Imms }
    \cup { Insn(op, FALSE, <<d, imm>>) :
             op \in {"li", "lis"}, d \in Regs, imm \in Imms }

isRecordForm(insn) == insn.dot

\* The line that compares the destination register with zero into cr0.
CompareLine(insn) == [writes |-> "cr0", reads |-> insn.operands[1]]

emitRecordFormCompare(insn) ==
    IF isRecordForm(insn) THEN <<CompareLine(insn)>> ELSE <<>>

\* The text a logical builder or li / lis prints: the assignment to the
\* destination register, then the cr0 compare where the builder emits one.
build_logical(insn) ==
    <<[writes |-> "r", reg |-> insn.operands[1], expr |-> insn.op]>>
    \o (IF insn.op \in {"andi", "andis"}
        THEN <<CompareLine(insn)>>
        ELSE IF insn.op \in {"and", "andc", "not", "or", "xor", "eqv"}
        THEN emitRecordFormCompare(insn)
        ELSE <<>>)

isMMIOUpperBits(imm) == (imm >= 32712 /\ imm <= 32719) \/ imm = 32746

\* The MMIO-base flags after the builder for insn has run.
build_mmio(insn, flags) ==
    LET dest == insn.operands[1]
        set == flags \cup {dest}
        clear == flags \ {dest}
    IN  CASE insn.op = "or" ->
               IF insn.operands[2] \in flags \/ insn.operands[3] \in flags
               THEN set ELSE clear
          [] insn.op = "ori" ->
               IF insn.operands[2] \in flags THEN set ELSE clear
          [] insn.op = "oris" ->
               IF isMMIOUpperBits(insn.operands[3]) THEN set ELSE flags
          [] insn.op = "lis" ->
               IF isMMIOUpperBits(insn.operands[2]) THEN set ELSE clear
          [] OTHER -> flags

\* Recompiler::recompile of one logical instruction: the builder runs, and a
\* record-form instruction without cr0 or cr6 in its text is only warned about.
BuildLogical(insn) ==
    /\ built' = [insn |-> insn, text |-> build_logical(insn),
                 mmio_before |-> mmio_base]
    /\ mmio_base' = build_mmio(insn, mmio_base)
    /\ UNCHANGED <<cr, csrState>>
    /\ BldOnly

\* printSetFlushMode: the switch printed before a floating-point (enable
\* false) or vector (enable true) operation, given the tracked state.
newState(enable) == IF enable THEN "VMX" ELSE "FPU"
printSetFlushModeSuffixOnUnknown(enable, state) ==
    IF state # newState(enable)
    THEN <<[writes |-> "fpscr",
            prefix |-> IF enable THEN "enable" ELSE "disable",
            suffix |-> IF state = "Unknown" THEN "Unconditional" ELSE ""]>>
    ELSE <<>>
printSetFlushMode(enable, state) ==
    IF state # newState(enable)
    THEN <<[writes |-> "fpscr",
            prefix |-> IF enable THEN "enable" ELSE "disable",
            suffix |-> IF state # "Unknown" THEN "Unconditional" ELSE ""]>>
    ELSE <<>>

\* A builder that needs a flush mode (build_lfd and the like): the switch is
\* printed and the tracked state becomes the mode asked for.
BuildFlushOp(enable) ==
    /\ built' = [insn |-> Insn(IF enable THEN "vmx" ELSE "fp", FALSE, <<>>),
                 text |-> printSetFlushMode(enable, csrState),
                 csr_before |-> csrState]
    /\ csrState' = newState(enable)
    /\ UNCHANGED <<mmio_base, cr>>
    /\ BldOnly

\* recompile(fn): a label is printed; any branch may arrive there.
EmitLabel ==
    /\ built' = [insn |-> Insn("label", FALSE, <<>>),
                 text |-> <<[writes |-> "label"]>>, csr_before |-> csrState]
    /\ csrState' = "Unknown"
    /\ UNCHANGED <<mmio_base, cr>>
    /\ BldOnly

\* build_bl with the graph's classification of its target, and build_bctrl.
BuildCall(op, kind) ==
    /\ op = "bctrl" => kind = "Function"
    /\ built' = [insn |-> Insn(op, FALSE, <<>>), kind |-> kind,
                 text |-> IF op = "bl" /\ kind = "InternalLabel"
                          THEN <<[writes |-> "lr"], [writes |-> "goto"]>>
                          ELSE IF op = "bl" /\ kind = "Unknown"
                          THEN <<[writes |-> "lr"], [writes |-> "fatal"]>>
                          ELSE <<[writes |-> "lr"], [writes |-> "call"]>>,
                 csr_before |-> csrState]
    /\ csrState' = IF op = "bctrl" \/ kind \in {"Function", "Import"}
                   THEN "Unknown" ELSE csrState
    /\ UNCHANGED <<mmio_base, cr>>
    /\ BldOnly

\* printMidAsmHook: the call of a mid-asm hook, followed by a return when the
\* hook is configured with ret.
HookCall(ret) ==
    /\ built' = [insn |-> Insn("hook", FALSE, <<>>), ret |-> ret,
                 text |-> <<[writes |-> "call"]>>
                          \o (IF ret THEN <<[writes |-> "return"]>> ELSE <<>>),
                 csr_before |-> csrState]
    /\ UNCHANGED <<mmio_base, cr, csrState>>
    /\ BldOnly

LogicalInit ==
    /\ ApcInit
    /\ LifeStart
    /\ GenIdle
    /\ FibIdle
    /\ SvcIdle
    /\ AuxIdle
    /\ mmio_base = {}
    /\ cr = <<>>
    /\ built = [insn |-> Insn("none", FALSE, <<>>), text |-> <<>>,
                mmio_before |-> {}]
    /\ csrState = "Unknown"

LogicalNext ==
    \/ \E insn \in LogicalInsns : BuildLogical(insn)
    \/ \E enable \in BOOLEAN : BuildFlushOp(enable)
    \/ EmitLabel
    \/ \E op \in {"bl", "bctrl"},
          kind \in {"InternalLabel", "Function", "Import", "Unknown"} :
          BuildCall(op, kind)
    \/ \E ret \in BOOLEAN : HookCall(ret)

SpecLogical == LogicalInit /\ [][LogicalNext]_vars

(***************************************************************************)
(* CR-bit builders                                                         *)
(***************************************************************************)
\* CR bit indices the instructions name: two bits of field 0, one of field 1.
CrBits == {0, 1, 5}

crBitName(bi) == <<"lt", "gt", "eq", "so">>[(bi % 4) + 1]
\* The member of the emitted code that global CR bit i is mapped to.
CrMember(i) == <<i \div 4, crBitName(i % 4)>>
CrMembers == { CrMember(i) : i \in CrBits }

\* emitCRBitOperation: the one statement `crD = [!](  [!]crA op [!]crB );`
emitCRBitOperation(insn, op, invertA, invertB, invertResult) ==
    [lhs |-> CrMember(insn.operands[1]),
     a |-> CrMember(insn.operands[2]), invertA |-> invertA,
     b |-> CrMember(insn.operands[3]), invertB |-> invertB,
     op |-> op, invertResult |-> invertResult]

\* build_crand .. build_crorc.
build_cr(insn) ==
    CASE insn.op = "crand"  -> emitCRBitOperation(insn, "&", FALSE, FALSE, FALSE)
      [] insn.op = "crandc" -> emitCRBitOperation(insn, "&", FALSE, TRUE, FALSE)
      [] insn.op = "creqv"  -> emitCRBitOperation(insn, "=", FALSE, FALSE, FALSE)
      [] insn.op = "crnand" -> emitCRBitOperation(insn, "&", FALSE, FALSE, TRUE)
      [] insn.op = "crnor"  -> emitCRBitOperation(insn, "|", FALSE, FALSE, TRUE)
      [] insn.op = "cror"   -> emitCRBitOperation(insn, "|", FALSE, FALSE, FALSE)
      [] insn.op = "crorc"  -> emitCRBitOperation(insn, "|", FALSE, TRUE, FALSE)

CrOps == {"crand", "crandc", "creqv", "crnand", "crnor", "cror", "crorc"}
CrInsns ==
    { Insn(op, FALSE, <<d, a, b>>) :
        op \in CrOps, d \in CrBits, a \in CrBits, b \in CrBits }

\* What the emitted statement does to the CR when the compiled code runs it:
\* `&` and `|` of the two operands; with `=` the right operand is assigned to
\* the left one and is the value of the expression.
RunStatement(stmt, bits) ==
    LET a == IF stmt.invertA THEN ~bits[stmt.a] ELSE bits[stmt.a]
        b == IF stmt.invertB THEN ~bits[stmt.b] ELSE bits[stmt.b]
        val == CASE stmt.op = "&" -> a /\ b
                 [] stmt.op = "|" -> a \/ b
                 [] stmt.op = "=" -> b
        rhs == IF stmt.invertResult THEN ~val ELSE val
        assigned == IF stmt.op = "=" THEN [bits EXCEPT ![stmt.a] = b] ELSE bits
    IN  [assigned EXCEPT ![stmt.lhs] = rhs]

\* One CR-bit instruction is built and the statement emitted for it runs.
BuildCRBit(insn) ==
    /\ built' = [insn |-> insn, text |-> <<build_cr(insn)>>, cr_before |-> cr]
    /\ cr' = RunStatement(build_cr(insn), cr)
    /\ UNCHANGED <<mmio_base, csrState>>
    /\ BldOnly

CRBitInit ==
    /\ ApcInit
    /\ LifeStart
    /\ GenIdle
    /\ FibIdle
    /\ SvcIdle
    /\ AuxIdle
    /\ mmio_base = {}
    /\ cr \in [CrMembers -> BOOLEAN]
    /\ csrState = "Unknown"
    /\ built = [insn |-> Insn("none", FALSE, <<>>), text |-> <<>>, cr_before |-> cr]

CRBitNext == \E insn \in CrInsns : BuildCRBit(insn)

SpecCRBit == CRBitInit /\ [][CRBitNext]_vars

(***************************************************************************)
(* Code emitted for lwarx / stwcx., run by guest threads                   *)
(***************************************************************************)
GuestThreads == {1, 2}
\* A word as its bytes in memory order; the guest value is the bytes swapped.
Bytes == 0..1
Words == { <<hi, lo>> : hi \in Bytes, lo \in Bytes }
bswap(w) == <<w[2], w[1]>>

PreInit ==
    /\ ApcInit
    /\ LifeStart
    /\ GenIdle
    /\ FibIdle
    /\ SvcIdle
    /\ BldIdle

FileIdle ==
    /\ disk = <<>>
    /\ pendingWrites = <<>>
    /\ cppFileIndex = 0
    /\ flushed = <<>>
    /\ rot = <<>>
    /\ TimerIdle

AtomicInit ==
    /\ PreInit
    /\ FileIdle
    /\ raw_mem \in Words
    /\ reserved = [t \in GuestThreads |-> <<0, 0>>]
    /\ cas = [op |-> "none"]

\* build_lwarx: reserved = the raw word; rD = bswap(reserved).
Lwarx(t) ==
    /\ reserved' = [reserved EXCEPT ![t] = raw_mem]
    /\ cas' = [op |-> "lwarx", thread |-> t, rD |-> bswap(raw_mem)]
    /\ UNCHANGED raw_mem
    /\ UNCHANGED <<fileVars, rot, timer>>
    /\ AuxOnly

\* An ordinary store of register value rS by a guest thread.
Stw(t, rS) ==
    /\ raw_mem' = bswap(rS)
    /\ cas' = [op |-> "stw", thread |-> t]
    /\ UNCHANGED reserved
    /\ UNCHANGED <<fileVars, rot, timer>>
    /\ AuxOnly

\* A store-conditional that stores whatever the word holds.
StwcxUnconditional(t, rS, xer_so) ==
    /\ raw_mem' = bswap(rS)
    /\ cas' = [op |-> "stwcx", thread |-> t, before |-> raw_mem,
               reserved |-> reserved[t], rS |-> rS, xer_so |-> xer_so,
               lt |-> 0, gt |-> 0, eq |-> TRUE, so |-> xer_so]
    /\ UNCHANGED reserved
    /\ UNCHANGED <<fileVars, rot, timer>>
    /\ AuxOnly
\* build_stwcx: cr0.lt = cr0.gt = 0; cr0.eq = the result of the atomic
\* compare-and-swap of the word against reserved with bswap(rS); cr0.so = xer.so.
Stwcx(t, rS, xer_so) ==
    /\ raw_mem' = IF raw_mem = reserved[t] THEN bswap(rS) ELSE raw_mem
    /\ cas' = [op |-> "stwcx", thread |-> t, before |-> raw_mem,
               reserved |-> reserved[t], rS |-> rS, xer_so |-> xer_so,
               lt |-> 0, gt |-> 0, eq |-> (raw_mem = reserved[t]),
               so |-> xer_so]
    /\ UNCHANGED reserved
    /\ UNCHANGED <<fileVars, rot, timer>>
    /\ AuxOnly

AtomicNext ==
    \/ \E t \in GuestThreads : Lwarx(t)
    \/ \E t \in GuestThreads, rS \in Words : Stw(t, rS)
    \/ \E t \in GuestThreads, rS \in Words, xer_so \in BOOLEAN : Stwcx(t, rS, xer_so)

SpecAtomic == AtomicInit /\ [][AtomicNext]_vars

(***************************************************************************)
(* Buffered output files: SaveCurrentOutData and FlushPendingWrites        *)
(***************************************************************************)
\* Buffered outputs of one run.
MaxPendingWrites == 2

Missing == <<>>
\* File contents: byte strings of one or two bytes.
Contents == { <<0>>, <<1>>, <<0, 1>> }
\* XXH3_128bits, as a digest computed from the bytes.
XXH3(content) == IF Len(content) = 1 THEN content[1] ELSE content[1] + content[2]

RecompName(i) == <<"recomp", i>>
FileNames == { RecompName(i) : i \in 0..(MaxPendingWrites - 1) } \cup { <<"sources.cmake", 0>> }

FileInit ==
    /\ PreInit
    /\ raw_mem = <<>>
    /\ reserved = <<>>
    /\ cas = <<>>
    /\ disk \in [FileNames -> Contents \cup {Missing}]
    /\ pendingWrites = <<>>
    /\ cppFileIndex = 0
    /\ flushed = [op |-> "none"]
    /\ rot = <<>>
    /\ TimerIdle

\* SaveCurrentOutData(name) with the output buffer holding `content`: an empty
\* buffer is not queued, an empty name stands for the next numbered file.
SaveCurrentOutData(name, content) ==
    /\ Len(pendingWrites) < MaxPendingWrites
    /\ name = <<>> => cppFileIndex < MaxPendingWrites
    /\ IF content # <<>>
       THEN /\ pendingWrites' = Append(pendingWrites,
                   <<IF name = <<>> THEN RecompName(cppFileIndex) ELSE name, content>>)
            /\ cppFileIndex' = IF name = <<>> THEN cppFileIndex + 1 ELSE cppFileIndex
       ELSE UNCHANGED <<pendingWrites, cppFileIndex>>
    /\ flushed' = [op |-> "save"]
    /\ UNCHANGED disk
    /\ UNCHANGED <<atomVars, rot, timer>>
    /\ AuxOnly

\* Whether a pending content is written over what the file holds.
shouldWriteAlways(existing, content) == TRUE
shouldWrite(existing, content) ==
    IF existing # Missing /\ Len(existing) = Len(content)
    THEN XXH3(existing) # XXH3(content)
    ELSE TRUE

\* The loop of FlushPendingWrites from entry k on: the directory and, per
\* entry, whether it was written.  A file in `unwritable` cannot be opened
\* for writing and is passed over.
RECURSIVE FlushLoop(_, _, _, _)
FlushLoop(k, dir, wrote, unwritable) ==
    IF k > Len(pendingWrites) THEN [disk |-> dir, wrote |-> wrote]
    ELSE LET filename == pendingWrites[k][1]
             content == pendingWrites[k][2]
             write == shouldWrite(dir[filename], content)
                      /\ filename \notin unwritable
         IN  FlushLoop(k + 1,
                       IF write THEN [dir EXCEPT ![filename] = content] ELSE dir,
                       Append(wrote, write), unwritable)

FlushPendingWrites(unwritable) ==
    LET res == FlushLoop(1, disk, <<>>, unwritable)
    IN  /\ disk' = res.disk
        /\ flushed' = [op |-> "flush", before |-> disk, pending |-> pendingWrites,
                       wrote |-> res.wrote]
        /\ pendingWrites' = <<>>
    /\ UNCHANGED cppFileIndex
    /\ UNCHANGED <<atomVars, rot, timer>>
    /\ AuxOnly

\* A new run of the emitter starts numbering its files from 0.
NewRun ==
    /\ pendingWrites = <<>>
    /\ cppFileIndex > 0
    /\ cppFileIndex' = 0
    /\ UNCHANGED <<disk, pendingWrites, flushed>>
    /\ UNCHANGED <<atomVars, rot, timer>>
    /\ AuxOnly

FileNext ==
    \/ \E name \in {<<>>, <<"sources.cmake", 0>>}, content \in Contents \cup {<<>>} :
          SaveCurrentOutData(name, content)
    \/ \E unwritable \in SUBSET {RecompName(0)} : FlushPendingWrites(unwritable)
    \/ NewRun

SpecFile == FileInit /\ [][FileNext]_vars

(***************************************************************************)
(* Rotate-and-mask: compute_mask and the code emitted for rlwinm           *)
(***************************************************************************)
\* A uint64_t as the set of its one bits; bit k has the value 2^k.
U64Bits == 0..63
UINT64_MAX == U64Bits
ShiftRight(x, n) == { k - n : k \in { j \in x : j >= n } }
ShiftLeft(x, n) == { k + n : k \in { j \in x : j + n <= 63 } }
RotateLeft64(x, n) == { (k + n) % 64 : k \in x }
BitXor(x, y) == (x \ y) \cup (y \ x)
BitNot(x) == U64Bits \ x
LowWord(x) == { k \in x : k <= 31 }
\* The uint64_t whose low word has the four given bytes, most significant first.
FromBytes(bytes) ==
    { 8 * (4 - i) + j : i \in 1..4, j \in 0..7 } \cap
    { k \in U64Bits : k <= 31 /\ (bytes[4 - (k \div 8)] \div (2 ^ (k % 8))) % 2 = 1 }

compute_maskNoWrap(mstart, mstop) ==
    LET ms == mstart % 64
        me == mstop % 64
    IN  BitXor(ShiftRight(UINT64_MAX, ms),
               IF me >= 63 THEN {} ELSE ShiftRight(UINT64_MAX, me + 1))
compute_mask(mstart, mstop) ==
    LET ms == mstart % 64
        me == mstop % 64
        value == BitXor(ShiftRight(UINT64_MAX, ms),
                        IF me >= 63 THEN {} ELSE ShiftRight(UINT64_MAX, me + 1))
    IN  IF ms <= me THEN value ELSE BitNot(value)

\* The value the statement emitted by build_rlwinm gives rA:
\* rotateleft64(rS.u32 | (rS.u64 << 32), sh) & compute_mask(mb + 32, me + 32).
build_rlwinmDoublewordMask(rS, sh, mb, me) ==
    RotateLeft64(LowWord(rS) \cup ShiftLeft(rS, 32), sh) \cap compute_mask(mb, me)
build_rlwinm(rS, sh, mb, me) ==
    RotateLeft64(LowWord(rS) \cup ShiftLeft(rS, 32), sh)
        \cap compute_mask(mb + 32, me + 32)

\* Register values for rS, and the rotate and mask fields of the instruction.
RlwinmSources == { <<170, 187, 204, 221>>, <<128, 0, 0, 1>> }
RlwinmFields == { <<8, 16, 23>>, <<24, 24, 31>>, <<0, 0, 31>>, <<4, 28, 3>> }

MaskInit ==
    /\ PreInit
    /\ raw_mem = <<>>
    /\ reserved = <<>>
    /\ cas = <<>>
    /\ disk = <<>>
    /\ pendingWrites = <<>>
    /\ cppFileIndex = 0
    /\ flushed = <<>>
    /\ rot \in { [op |-> "mask_args", mstart |-> a, mstop |-> b] :
                    a \in 0..63, b \in 0..63 }
               \cup { [op |-> "rlwinm_args", rS |-> bytes, fields |-> fields] :
                        bytes \in RlwinmSources, fields \in RlwinmFields }
    /\ TimerIdle

ComputeMask(mstart, mstop) ==
    /\ rot = [op |-> "mask_args", mstart |-> mstart, mstop |-> mstop]
    /\ rot' = [op |-> "mask", mstart |-> mstart, mstop |-> mstop,
               mask |-> compute_mask(mstart, mstop)]
    /\ UNCHANGED <<atomVars, fileVars, timer>>
    /\ AuxOnly

Rlwinm(bytes, fields) ==
    /\ rot = [op |-> "rlwinm_args", rS |-> bytes, fields |-> fields]
    /\ rot' = [op |-> "rlwinm", rS |-> bytes, sh |-> fields[1],
               mb |-> fields[2], me |-> fields[3],
               rA |-> build_rlwinm(FromBytes(bytes), fields[1], fields[2],
                                   fields[3])]
    /\ UNCHANGED <<atomVars, fileVars, timer>>
    /\ AuxOnly

MaskNext ==
    \/ \E mstart \in 0..63, mstop \in 0..63 : ComputeMask(mstart, mstop)
    \/ \E bytes \in RlwinmSources, fields \in RlwinmFields : Rlwinm(bytes, fields)

SpecMask == MaskInit /\ [][MaskNext]_vars

(***************************************************************************)
(* Claims about the APC queue, checked under Spec                          *)
(***************************************************************************)
IsPrefix(s, t) == Len(s) <= Len(t) /\ SubSeq(t, 1, Len(s)) = s
Delivering == \E i \in DOMAIN stack : stack[i].fn = "DeliverAPCs"

C2_DisableGatesDelivery ==
    [][apc_disable_count # 0 =>
         /\ popped' = popped
         /\ invoked' = invoked
         /\ IsPrefix(apc_list, apc_list')]_vars

\* DeliverAPCs is at its loop condition with an APC pending and the count
\* non-zero.
C2_Witness ==
    /\ stack # <<>>
    /\ Top.fn = "DeliverAPCs" /\ Top.pc = "loop"
    /\ apc_disable_count # 0
    /\ HasPending(apc_list)

\* C3: while the normal routine itself runs, the delivering thread does not
\* hold the region; whenever DeliverAPCs is at its loop condition (about to
\* shift the next APC) it holds the region; and a call of EnqueueApc by the
\* delivering thread never waits for a region the thread itself holds.
C3_RegionDroppedAroundNormal ==
    stack # <<>> =>
        /\ (Top.fn = "DeliverAPCs" /\ Top.pc = "normal") => mutex_owner # Owner
        /\ (Top.fn = "DeliverAPCs" /\ Top.pc = "loop") => mutex_owner = Owner
        /\ (Top.fn = "EnqueueApc" /\ Top.pc = "lock") => mutex_owner # Owner

\* A normal routine called EnqueueApc on its own thread and got the region.
C3_Witness ==
    /\ Len(stack) = 2
    /\ stack[1].fn = "DeliverAPCs" /\ stack[1].pc = "normal"
    /\ stack[2].fn = "EnqueueApc" /\ stack[2].pc = "insert"
    /\ mutex_owner = Owner


(***************************************************************************)
(* Claims about Exit and Terminate, checked under SpecLife                 *)
(***************************************************************************)
\* What Exit has done so far, without the host-side running_ flag.
ExitEffects == SelectSeq(exit_trace, LAMBDA e : e # "not_running")
InExit == thr \in {"exit", "ended_exit"}

\* C4 as stated: Exit sets the signal state and exit status first, then runs
\* the APC rundown, then notifies the kernel, clears the current-thread pointer,
\* releases the self-retain and exits the host thread.
C4_SignalBeforeRundown ==
    InExit => IsPrefix(ExitEffects,
                       <<"signal", "rundown", "notify", "clear_tls", "release",
                         "host_exit">>)

\* C4 amended: Exit runs the APC rundown first, then sets the signal state and
\* exit status, then notifies the kernel, clears the current-thread pointer,
\* releases the self-retain and exits the host thread; while the rundown is
\* under way the thread is not yet signalled by its own Exit.
C4_RundownBeforeSignal ==
    /\ InExit =>
          IsPrefix(ExitEffects,
                   <<"rundown", "signal", "notify", "clear_tls", "release",
                     "host_exit">>)
    /\ thr = "ended_exit" => Len(ExitEffects) = 6
    /\ (thr = "exit" /\ rd_pc = "loop" /\ killer.pc = "idle") => signal_state = 0
    /\ (thr = "exit" /\ notified = 1 /\ killer.pc = "idle") =>
          signal_state = 1 /\ exit_status = exit_arg /\ ~HasPending(apc_list)

\* An Exit that ran to the end and whose rundown called a rundown routine.
C4_Witness ==
    /\ thr = "ended_exit"
    /\ rundown_calls # <<>>
    /\ killer.pc = "idle"
    /\ signal_state = 1
    /\ host = "exited"

\* C5: a thread that terminated itself (no other thread involved) is left as
\* Exit would leave it: signalled with its exit status, its pending APCs run
\* down, the kernel notified, the current-thread pointer cleared, the
\* self-retain released and the host thread exited.
C5_SelfTerminateAsExit ==
    (thr = "ended_terminate" /\ killer.pc = "idle") =>
        /\ signal_state = 1
        /\ exit_status = exit_arg
        /\ ~HasPending(apc_list)
        /\ notified = 1
        /\ tls = "null"
        /\ ~running_
        /\ self_refs = 0
        /\ host = "exited"


(***************************************************************************)
(* Claims about the emitted code, checked under SpecGen                    *)
(***************************************************************************)
\* Every statement printed so far, those inside if and switch bodies included.
AllStmts == Range(out) \cup UNION {Range(s.body) : s \in Range(out)}
\* The statements printed for the instruction at a.
StmtsAt(a) ==
    LET top == {s \in Range(out) : s.at = a}
    IN  top \cup UNION {Range(s.body) : s \in top}
LabelCount(x) ==
    Cardinality({i \in DOMAIN out : out[i].k = "label" /\ out[i].t = x})
Emitted(a) == a \in FnAddrs /\ a < base /\ gpc \in {"emit", "done"}
Has(stmts, k, t) == \E s \in stmts : s.k = k /\ s.t = t

\* C6: in the emitted function every goto loc_X has its label loc_X declared
\* exactly once.
C6_EveryGotoHasItsLabel ==
    gpc = "done" =>
        \A s \in AllStmts : s.k = "goto" => LabelCount(s.t) = 1

C8_SwitchDispatch ==
    \A i \in DOMAIN out :
        out[i].k = "switch" =>
            LET targets == BoundTable(out[i].at, switchTables)
                n == Len(targets)
            IN  /\ Len(out[i].body) = n + 1
                /\ out[i].body[n + 1].k = "trap"
                /\ \A j \in 1..n :
                      IF InFn(targets[j])
                      THEN out[i].body[j].k = "goto" /\ out[i].body[j].t = targets[j]
                      ELSE out[i].body[j].k = "trap"

\* C9: when emission met a target the graph cannot classify or a builder that
\* failed, the run is marked validation-failed and output is written only
\* under --force.
C9_FailureBlocksOutput ==
    (\/ ~allRecompiled
     \/ \E s \in AllStmts : s.k \in {"fatal", "unresolved"}) =>
        /\ validationFailed_
        /\ written => force


(***************************************************************************)
(* Claims about the host fiber, checked under SpecFiber                    *)
(***************************************************************************)
\* C10: after SwitchTo(B), Current is B and B is what runs; a fiber that is
\* switched back into continues right after its own SwitchTo call on the stack
\* it left, so a fiber switched into k times has run exactly up to its k-th
\* switch-out; the first switch-in starts entry(arg).
C10_SwitchToResumes ==
    tls_current_ # 0 =>
        /\ RunningFiber = tls_current_
        /\ \A f \in DOMAIN fiber :
              LET h == hist[f]
                  first == IF fiber[f].is_thread_fiber_ THEN 1 ELSE 0
              IN  IF f = RunningFiber
                  THEN /\ h.outs + 1 = h.ins + first
                       /\ InCode =>
                             /\ cpu.code = IF fiber[f].is_thread_fiber_ THEN "main"
                                           ELSE fiber[f].entry_
                             /\ cpu.arg = fiber[f].arg_
                             /\ cpu.at - h.at = cpu.sp - Len(h.stack)
                             /\ cpu.at >= h.at
                             /\ SubSeq(StackMem(cpu.stk), 1, Len(h.stack)) = h.stack
                  ELSE /\ h.outs = h.ins + first
                       /\ h.outs > 0 =>
                             /\ fiber[f].context_.at = h.at
                             /\ fiber[f].context_.sp = Len(h.stack)
                             /\ StackMem(fiber[f].context_.stk) = h.stack
                       /\ h.outs = 0 => fiber[f].context_.code = "trampoline"

\* A created fiber that is running after its second switch-in, on the stack it
\* had written before it switched out.
C10_Witness ==
    /\ tls_current_ # 0
    /\ InCode
    /\ \E f \in DOMAIN fiber :
          /\ ~fiber[f].is_thread_fiber_
          /\ f = RunningFiber
          /\ hist[f].ins = 2
          /\ hist[f].outs = 1
          /\ hist[f].stack # <<>>
          /\ cpu.code = fiber[f].entry_


\* C11: Destroy is never carried out on the fiber that is Current, so Current
\* never refers to a destroyed fiber.
C11_CurrentNeverDestroyed ==
    tls_current_ # 0 => tls_current_ \notin destroyed


\* C12: the self-reference taken in Create is released exactly once on every
\* path by which the thread ends or fails to start.
C12_SelfReferenceReleasedOnce ==
    /\ self_refs >= 0
    /\ (thr \in {"ended_exit", "ended_terminate", "ended_return", "create_failed"}
        /\ killer.pc \in {"idle", "done"}) => self_refs = 0
    /\ (host = "terminated" /\ killer.pc = "done") => self_refs = 0


(***************************************************************************)
(* Claims about the guest thread services, checked under SpecSvc           *)
(***************************************************************************)
\* C13: after any sequence of Suspend and Resume calls the KTHREAD
\* suspend_count equals the host thread's suspend count and has not wrapped
\* below zero.
C13_SuspendCountMirrorsHost ==
    /\ suspend_count = host_suspend_count
    /\ suspend_count >= 0


\* The dynamic TLS region: the slots, from tls_dynamic_address_ to the end of
\* the block.
InDynamicRegion(a) ==
    /\ tls_dynamic_address_ <= a
    /\ a + 4 <= tls_static_address_ + tls_total_size_

\* C14: GetTLSValue and SetTLSValue succeed only for a slot whose four bytes
\* lie inside the dynamic TLS region, touch no memory when they fail, and
\* accept exactly the same set of slots.
C14_TlsSlotsInsideDynamicRegion ==
    svc_call.op \in {"get", "set"} =>
        /\ svc_call.ok => \A a \in svc_call.touched : InDynamicRegion(a)
        /\ ~svc_call.ok => svc_call.touched = {}
        /\ GetTLSAccepts(svc_call.slot) <=> SetTLSAccepts(svc_call.slot)


\* Guest milliseconds a Delay interval asks for: the magnitude of a relative
\* interval, the distance from now to an absolute one.
RequestedMs(interval, now) ==
    IF interval < 0 THEN (-interval) \div 10000
    ELSE IF interval > now THEN (interval - now) \div 10000
    ELSE 0

\* C15: Delay honours both interval forms: a negative interval sleeps that
\* many ticks from now, a positive interval sleeps until that absolute time,
\* and the host sleeps the guest duration scaled by the guest clock's scalar.
C15_DelayHonoursBothForms ==
    svc_call.op = "delay" =>
        svc_call.slept_ms =
            ScaleGuestDurationMillis(RequestedMs(svc_call.interval, svc_call.now),
                                     svc_call.scalar)


\* C16: whenever Save succeeds, the snapshot it writes holds the thread's
\* entire register file (LR, CTR, GPRs, FPRs, VRs, CR fields, FPSCR, XER flags,
\* vscr_sat, PC) besides the thread metadata.
C16_SaveWritesRegisterFile ==
    (svc_call.op = "save" /\ svc_call.ok) =>
        /\ svc_call.is_running = svc_call.running
        /\ \A reg \in Registers : svc_call.context[reg] = svc_call.live[reg]

C18_RecordFormWritesCr0 ==
    (built.insn.dot /\ built.insn.op \notin {"mulhd", "mulhdu"}) =>
        \E k \in DOMAIN built.text : built.text[k].writes \in {"cr0", "cr6"}

\* C20: the MMIO-base flag follows the register's value: ori gives the
\* destination the source's flag, and xor, xori and xoris, which overwrite
\* the destination register, clear its flag.
C20_MmioFlagFollowsValue ==
    LET insn == built.insn
        dest == insn.operands[1]
    IN  /\ insn.op = "ori" =>
              (dest \in mmio_base <=> insn.operands[2] \in built.mmio_before)
        /\ insn.op \in {"xor", "xori", "xoris"} => dest \notin mmio_base


(***************************************************************************)
(* Claims about the CR-bit builders, checked under SpecCRBit               *)
(***************************************************************************)
\* The logical function of each CR-bit instruction.
CrFunction(op, a, b) ==
    CASE op = "crand"  -> a /\ b
      [] op = "crandc" -> a /\ ~b
      [] op = "creqv"  -> a <=> b
      [] op = "crnand" -> ~(a /\ b)
      [] op = "crnor"  -> ~(a \/ b)
      [] op = "cror"   -> a \/ b
      [] op = "crorc"  -> a \/ ~b

\* C19: the code emitted for a CR-bit instruction reads bit i%4 of field i/4
\* for each source index, applies the instruction's logical function, and
\* writes the result to the destination bit only: every other CR bit,
\* the sources included, keeps its value.
C19_CrBitOperation ==
    built.insn.op \in CrOps =>
        LET insn == built.insn
            before == built.cr_before
            result == CrFunction(insn.op, before[CrMember(insn.operands[2])],
                                 before[CrMember(insn.operands[3])])
        IN  \A m \in CrMembers :
                cr[m] = IF m = CrMember(insn.operands[1]) THEN result
                        ELSE before[m]


(***************************************************************************)
(* Claims about the tracked flush mode, checked under SpecLogical          *)
(***************************************************************************)
FlushOps == {"fp", "vmx"}
Needed(insn) == IF insn.op = "vmx" THEN "VMX" ELSE "FPU"

\* C21 as stated: a flush-mode switch is emitted only when the tracked state
\* differs from the mode needed, and it carries the Unconditional annotation
\* exactly when the state before it was Unknown.
C21_UnconditionalWhenUnknown ==
    built.insn.op \in FlushOps =>
        /\ built.text # <<>> <=> built.csr_before # Needed(built.insn)
        /\ built.text # <<>> =>
              (built.text[1].suffix = "Unconditional"
                  <=> built.csr_before = "Unknown")

\* C21, amended: a flush-mode switch is emitted exactly when the tracked
\* state differs from the mode needed, and it carries the Unconditional
\* annotation exactly when the state before it was known (not Unknown).
C21_UnconditionalWhenKnown ==
    built.insn.op \in FlushOps =>
        /\ built.text # <<>> <=> built.csr_before # Needed(built.insn)
        /\ built.text # <<>> =>
              (built.text[1].suffix = "Unconditional"
                  <=> built.csr_before # "Unknown")

\* A vector operation built while the tracked state was FPU.
C21_Witness ==
    /\ built.insn.op = "vmx"
    /\ built.csr_before = "FPU"
    /\ built.text # <<>>
    /\ built.text[1].suffix = "Unconditional"
    /\ csrState = "VMX"

\* C26: the tracked mode is Unknown right after every emitted label and after
\* every emitted call that can return into the body: bl to a function or an
\* import, bctrl, and a mid-asm hook call not followed by a return.
C26_UnknownAfterLabelAndCall ==
    (\/ built.insn.op \in {"label", "bctrl"}
     \/ (built.insn.op = "bl" /\ built.kind \in {"Function", "Import"})
     \/ (built.insn.op = "hook" /\ ~built.ret))
        => csrState = "Unknown"


(***************************************************************************)
(* Claims about the emitted atomics, checked under SpecAtomic              *)
(***************************************************************************)
\* C22: stwcx. stores the new value, in one atomic step, only if the word
\* still holds the value this thread's preceding lwarx captured; cr0.eq tells
\* whether the store happened, cr0.lt = cr0.gt = 0 and cr0.so = xer.so.
C22_StoreConditional ==
    cas.op = "stwcx" =>
        LET held == cas.before = cas.reserved
        IN  /\ cas.reserved = reserved[cas.thread]
            /\ raw_mem = IF held THEN bswap(cas.rS) ELSE cas.before
            /\ cas.eq = held
            /\ cas.lt = 0 /\ cas.gt = 0
            /\ cas.so = cas.xer_so

\* Thread 1 reserved the word, thread 2 changed it, and thread 1's stwcx. then
\* stored nothing.
C22_Witness ==
    /\ cas.op = "stwcx"
    /\ cas.thread = 1
    /\ cas.reserved # <<0, 0>>
    /\ cas.before # cas.reserved
    /\ ~cas.eq
    /\ raw_mem = cas.before
    /\ raw_mem # bswap(cas.rS)


(***************************************************************************)
(* Claims about the buffered output files, checked under SpecFile          *)
(***************************************************************************)
\* Entries of the last flush whose file no other entry of that flush names.
SoleEntries ==
    { k \in DOMAIN flushed.pending :
        \A j \in DOMAIN flushed.pending :
            flushed.pending[j][1] = flushed.pending[k][1] => j = k }

\* C23: at flush, every pending output whose content is identical to the
\* existing file is skipped, only outputs whose content differs or whose
\* file is missing are written, and a flush over files that already hold the
\* pending contents writes nothing.
C23_UnchangedOutputNotWritten ==
    flushed.op = "flush" =>
        /\ \A k \in SoleEntries :
              LET filename == flushed.pending[k][1]
                  content == flushed.pending[k][2]
              IN  /\ flushed.before[filename] = content => ~flushed.wrote[k]
                  /\ flushed.wrote[k] =>
                        /\ flushed.before[filename] # content
                        /\ disk[filename] = content
                  /\ ~flushed.wrote[k] => disk[filename] = flushed.before[filename]
        /\ (\A k \in DOMAIN flushed.pending :
                flushed.before[flushed.pending[k][1]] = flushed.pending[k][2])
              => /\ disk = flushed.before
                 /\ \A k \in DOMAIN flushed.wrote : ~flushed.wrote[k]

\* A flush of two outputs: one identical to its file and skipped, the other
\* different from its file and written.
C23_Witness ==
    /\ flushed.op = "flush"
    /\ Len(flushed.pending) = 2
    /\ SoleEntries = {1, 2}
    /\ flushed.before[flushed.pending[1][1]] = flushed.pending[1][2]
    /\ ~flushed.wrote[1]
    /\ flushed.before[flushed.pending[2][1]] \notin {Missing, flushed.pending[2][2]}
    /\ flushed.wrote[2]


(***************************************************************************)
(* Claims about rotate-and-mask, checked under SpecMask                    *)
(***************************************************************************)
\* PPC numbers the bits of a doubleword from 0, the most significant.
PpcBits(from, to) == { 63 - i : i \in from..to }

\* C24: for every pair of 6-bit inputs (a, b), compute_mask(a, b) is the PPC
\* rotate mask: bits a..b when a <= b, otherwise the complement of the bits
\* strictly between b and a.
C24_ComputeMaskIsPpcMask ==
    rot.op = "mask" =>
        rot.mask = IF rot.mstart <= rot.mstop
                   THEN PpcBits(rot.mstart, rot.mstop)
                   ELSE U64Bits \ PpcBits(rot.mstop + 1, rot.mstart - 1)

\* A wrapping mask: start 60, stop 3.
C24_Witness ==
    /\ rot.op = "mask"
    /\ rot.mstart = 60
    /\ rot.mstop = 3
    /\ rot.mask = (0..3) \cup (60..63)

IsExample == rot.op = "rlwinm" /\ rot.rS = <<170, 187, 204, 221>>
                /\ rot.sh = 8 /\ rot.mb = 16 /\ rot.me = 23

\* C25 as stated: rlwinm r3, r4, 8, 16, 23 with r4 = 0xAABBCCDD gives a
\* result whose low 8 bits are 0xCC and whose other bits are zero.
C25_ExampleLowByteCC ==
    IsExample => rot.rA = FromBytes(<<0, 0, 0, 204>>)

\* C25, amended: rlwinm r3, r4, 8, 16, 23 computes
\* rotl32(r4, 8) & mask(16 + 32, 23 + 32); with r4 = 0xAABBCCDD that is
\* 0xBBCCDDAA & 0x0000FF00 = 0x0000DD00.
C25_ExampleIsDD00 ==
    IsExample =>
        /\ rot.rA = FromBytes(<<187, 204, 221, 170>>) \cap PpcBits(48, 55)
        /\ rot.rA = FromBytes(<<0, 0, 221, 0>>)

C25_Witness ==
    /\ IsExample
    /\ rot.rA = FromBytes(<<0, 0, 221, 0>>)


(***************************************************************************)
(* Late jump-table detection, checked under SpecGen                        *)
(***************************************************************************)
\* C27: the emission-time detection sweep never runs for a bctr that already
\* has a table bound by the first pass, configured or auto-detected.
C27_NoSweepWhenTableBound ==
    \A a \in swept : ~(fn.jt.src \in {"config", "auto"} /\ fn.jt.at = a)


(***************************************************************************)
(* Termination and the global critical region, checked under SpecLife      *)
(***************************************************************************)
\* C28: a thread terminated by another thread does not hold the global
\* critical region, wherever it was when it was terminated, so other threads
\* can still acquire the region.
C28_TerminatedHoldsNoRegion ==
    host = "terminated" => mutex_owner # Owner


\* C29: a timer never enqueues an APC onto a thread that has exited or been
\* destroyed: once the thread that called SetTimer has ended, a firing of its
\* timer enqueues nothing.
C29_NoTimerApcOnEndedThread ==
    timer.fired_on # "ended"


(***************************************************************************)
(* Delivery of pending APCs, checked under SpecApcFair                     *)
(***************************************************************************)
Queued(ptr) == \E i \in DOMAIN apc_list : apc_list[i] = ptr
Delivered(ptr) == \E i \in DOMAIN popped : popped[i] = ptr

====
